---- MODULE Spec2Model ----
(***************************************************************************)
(* RocketSpeed control tower: TopicTailer, LogReader and TopicManager      *)
(* (src/src/controltower/topic_tailer.h, src/unnamed/part_007).            *)
(*                                                                         *)
(* One TopicTailer (one room).  The room thread runs AddSubscriber,        *)
(* RemoveSubscriber and the commands of the storage-to-room queue; the     *)
(* storage threads run SendLogRecord, SendGapRecord and the                *)
(* FindLatestSeqno callback, which only enqueue commands.                  *)
(*                                                                         *)
(* SequenceNumber is uint64_t in the source.  TLC integers have 32 bits,   *)
(* so the width is scaled: U64 stands for 2^64 and every subtraction or    *)
(* addition the source does on SequenceNumber is taken modulo U64.         *)
(***************************************************************************)
EXTENDS Integers, Sequences, FiniteSets, Bags, TLC

\* ------------------------------------------------------------------ bounds
\* Highest sequence number the storage log can hold.
MaxSeq == 4
\* Capacity of each storage thread's queue into the room.
QueueCap == 1
\* Number of AddSubscriber / RemoveSubscriber calls the clients make.
MaxOps == 2
\* Highest start seqno a client passes to AddSubscriber.
MaxStart == 2

\* --------------------------------------------------------------- constants
kSubscriptionCostRewind == 1073741823
kSubscriptionCostStart == 1000
U64 == kSubscriptionCostRewind + 1

Add64(a, b) == (a + b) % U64
Sub64(a, b) == (a + U64 - b) % U64
Min(a, b) == IF a < b THEN a ELSE b
Max(a, b) == IF a < b THEN b ELSE a

\* Initialize(reader_ids, max_subscription_lag): the lag of this room.
max_subscription_lag == 1

Topics == {"a", "b", "c"}
\* The topics the clients of a room with at most two readers subscribe to.
ClientTopics == {"a", "b"}
\* The sequences that hold every element of the set S once.
RECURSIVE Orders(_)
Orders(S) ==
  IF S = {} THEN {<<>>}
  ELSE UNION {{<<x>> \o o : o \in Orders(S \ {x})} : x \in S}
\* The orders in which TopicManager::VisitTopics may meet the topics of the
\* TopicManager tm: topic_map_ is an unordered map, any order of its keys
\* can be the one.
TopicOrders(tm) == Orders({topic \in Topics : tm[topic] # <<>>})
Logs == {1}
\* CopilotSub: <<stream_id, sub_id>>.
Ids == {<<1, 1>>, <<1, 2>>, <<1, 3>>}
\* The subscribers of a room with at most two readers.
ClientIds == {<<1, 1>>, <<1, 2>>}
Streams == {1}
\* pending_reader_ is built with reader_id 0 and a null LogTailer.
PendingId == 0
PhysicalIds == {1, 2, 3}
\* The storage threads; each has its own queue into the room.
StorageThreads == {1, 2}
\* The storage thread that delivers the records and gaps of reader r: the
\* readers are spread over the threads.
ThreadOf(r) == ((r - 1) % 2) + 1
\* The values an uninitialised SequenceNumber may hold.
Indeterminate == {0, 1}
AllReaders == PhysicalIds \cup {PendingId}
NoTopic == "none"

\* A topic the LogRouter cannot map to a log.
Unroutable == "x"

\* LogRouter::GetLogID: the topics of the model are routed to the one log;
\* 0 stands for the error status the router returns for any other topic.
GetLogID(topic) == IF topic \in Topics THEN 1 ELSE 0

\* cache_size_per_room of a room with a data cache, in records.
CacheCap == 2

\* ------------------------------------------------------------------ state
VARIABLES
  log_readers,            \* log_readers_: sequence of physical reader ids
  can_subscribe_past_end, \* LogTailer::CanSubscribePastEnd()
  log_state,              \* LogReader::log_state_, per reader and log
  topic_map,              \* topic_map_[log]: TopicManager, topic -> list
  tail_seqno_cached,      \* tail_seqno_cached_[log], 0 = no entry
  stream_subscriptions,   \* stream_subscriptions_: id -> topic
  queue,                  \* storage-to-room queues of commands, one per
                          \* storage thread
  slog,                   \* storage: the records and gaps of the log
  written,                \* storage: number of seqnos written so far
  cursor,                 \* storage: position of each reader on each log
  find_reqs,              \* storage: bag of the FindLatestSeqno requests
                          \* in flight, one copy per callback held
  out,                    \* messages passed to on_message_ by the last step
  calls,                  \* LogTailer calls made by the last step
  ev,                     \* what the last step was and what it returned
  ops,                    \* number of client calls made so far
  last_next,              \* per id and topic: seqno of the last message
                          \* delivered since the id last subscribed to it
  removed,                \* ids whose latest client call was a removal
  owed,                   \* <<id, seqno>>: with one reader, the records the
                          \* reader had passed when id subscribed behind it
                          \* and that id has not been sent yet
  budget,                 \* number of client calls this run may make
  data_cache              \* data_cache_: capacity in records and the cached
                          \* records of the log, oldest first

vars == <<log_readers, can_subscribe_past_end, log_state, topic_map,
          tail_seqno_cached, stream_subscriptions, queue, slog, written,
          cursor, find_reqs, out, calls, ev, ops, last_next, removed, owed,
          budget, data_cache>>

\* ------------------------------------------------- LinkedMap<TopicUUID, ..>
\* A LinkedMap is a sequence of [topic, next_seqno], front first.
LmFind(topics, topic) ==
  IF \E i \in 1..Len(topics) : topics[i].topic = topic
  THEN CHOOSE i \in 1..Len(topics) : topics[i].topic = topic
  ELSE 0
LmErase(topics, i) == SubSeq(topics, 1, i - 1) \o SubSeq(topics, i + 1, Len(topics))
LmMoveToBack(topics, i) == LmErase(topics, i) \o <<topics[i]>>
LmMoveToFront(topics, i) == <<topics[i]>> \o LmErase(topics, i)
LmEmplaceFront(topics, topic, seqno) ==
  <<[topic |-> topic, next_seqno |-> seqno]>> \o topics
LmEmplaceBack(topics, topic, seqno) ==
  topics \o <<[topic |-> topic, next_seqno |-> seqno]>>
LmTopics(topics) == {topics[i].topic : i \in 1..Len(topics)}

\* LogReader::LogState; a log that is not in log_state_ has open = FALSE.
ClosedLog == [open |-> FALSE, start_seqno |-> 0, last_read |-> 0, topics |-> <<>>]

\* LogReader::IsVirtual / IsLogOpen
IsVirtual(r) == r = PendingId
IsLogOpen(s, r, log) == s.log_state[r][log].open

\* ----------------------------------------------------- LogTailer (storage)
ClosedCursor == [reading |-> FALSE, next |-> 0]

\* LogTailer::StartReading(log, seqno, reader_id, first_open): positions the
\* storage reader at seqno.  s.fail holds the calls the storage answers with
\* an error status, as <<op, reader>>.
TailerStartReading(s, log, seqno, r, first_open) ==
  LET call == [op |-> "StartReading", log |-> log, seqno |-> seqno,
               reader |-> r, first_open |-> first_open]
      ok == <<"StartReading", r>> \notin s.fail
  IN [s |-> [s EXCEPT !.calls = Append(@, call),
                      !.cursor[r][log] =
                         IF ok THEN [reading |-> TRUE, next |-> seqno] ELSE @],
      ok |-> ok]

\* LogTailer::StopReading(log, reader_id)
TailerStopReading(s, log, r) ==
  LET call == [op |-> "StopReading", log |-> log, seqno |-> 0,
               reader |-> r, first_open |-> FALSE]
      ok == <<"StopReading", r>> \notin s.fail
  IN [s |-> [s EXCEPT !.calls = Append(@, call),
                      !.cursor[r][log] = IF ok THEN ClosedCursor ELSE @],
      ok |-> ok]

\* ------------------------------------------------------------ TopicManager
\* TopicList: a sequence of TopicSubscription [id, seqno]; a topic that is
\* not in TopicManager::topic_map_ has the empty list.
SubIndex(list, id) ==
  IF \E i \in 1..Len(list) : list[i].id = id
  THEN CHOOSE i \in 1..Len(list) : list[i].id = id
  ELSE 0

\* UpdateSubscription without the search for an entry of id (a fault C8
\* must notice): the entry is always appended.
UpdateSubscriptionAppend(list, id, seqno) ==
  [list |-> Append(list, [id |-> id, seqno |-> seqno]), inserted |-> TRUE]

\* UpdateSubscription: [list, inserted]
UpdateSubscription(list, id, seqno) ==
  LET i == SubIndex(list, id)
  IN IF i # 0
     THEN [list |-> [list EXCEPT ![i].seqno = seqno], inserted |-> FALSE]
     ELSE [list |-> Append(list, [id |-> id, seqno |-> seqno]), inserted |-> TRUE]

\* RemoveSubscription erasing the head of the list instead of the entry it
\* found (a fault C9 must notice).
RemoveSubscriptionFirst(list, id) ==
  IF SubIndex(list, id) # 0 THEN Tail(list) ELSE list

\* RemoveSubscription: the list without the first entry of id
RemoveSubscription(list, id) ==
  LET i == SubIndex(list, id)
  IN IF i # 0 THEN SubSeq(list, 1, i - 1) \o SubSeq(list, i + 1, Len(list))
     ELSE list

\* TopicManager::AddSubscriber on tm = topic_map_[log]: [tm, added]
TmAddSubscriber(tm, topic, start, id) ==
  LET u == UpdateSubscription(tm[topic], id, start)
  IN [tm |-> [tm EXCEPT ![topic] = u.list], added |-> u.inserted]

\* TopicManager::RemoveSubscriber: [tm, all_removed]
TmRemoveSubscriber(tm, topic, id) ==
  LET l == RemoveSubscription(tm[topic], id)
  IN [tm |-> [tm EXCEPT ![topic] = l], all_removed |-> l = <<>>]

\* TopicManager::VisitSubscribers: the positions visited, in list order.
Visited(list, from, to) ==
  SelectSeq([i \in 1..Len(list) |-> i],
            LAMBDA i : list[i].seqno >= from /\ list[i].seqno <= to)

\* VisitSubscribers without the upper end of the range (a fault C1 must
\* notice): every entry at or above `from` is visited.
VisitSubscribersNoUpper(list, from, to, new) ==
  LET v == SelectSeq([i \in 1..Len(list) |-> i], LAMBDA i : list[i].seqno >= from)
  IN [list |-> [i \in 1..Len(list) |->
                  IF list[i].seqno >= from
                  THEN [list[i] EXCEPT !.seqno = new] ELSE list[i]],
      rcpts |-> [k \in 1..Len(v) |-> list[v[k]].id],
      exps |-> [k \in 1..Len(v) |-> list[v[k]].seqno]]

\* VisitSubscribers with a visitor that collects the id but does not call
\* SetSequenceNumber (a fault C33 must notice).
VisitSubscribersNoAdvance(list, from, to, new) ==
  LET v == Visited(list, from, to)
  IN [list |-> list,
      rcpts |-> [k \in 1..Len(v) |-> list[v[k]].id],
      exps |-> [k \in 1..Len(v) |-> list[v[k]].seqno]]

\* VisitSubscribers with the visitor every caller in TopicTailer passes:
\* collect the id, then SetSequenceNumber(new).
\* [list, rcpts, exps]: exps are the seqnos the visited entries had.
VisitSubscribers(list, from, to, new) ==
  LET v == Visited(list, from, to)
  IN [list |-> [i \in 1..Len(list) |->
                  IF list[i].seqno >= from /\ list[i].seqno <= to
                  THEN [list[i] EXCEPT !.seqno = new] ELSE list[i]],
      rcpts |-> [k \in 1..Len(v) |-> list[v[k]].id],
      exps |-> [k \in 1..Len(v) |-> list[v[k]].seqno]]

\* --------------------------------------------------------------- LogReader
\* ProcessRecord without the check seqno = last_read + 1 (a fault C4 must
\* notice): an open log accepts a record at any seqno.
ProcessRecordAnySeqno(s, r, log, seqno, topic) ==
  LET ls == s.log_state[r][log]
      i == LmFind(ls.topics, topic)
  IN IF ~ls.open THEN [s |-> s, st |-> "NotFound", prev |-> 0]
     ELSE IF i # 0
     THEN [s |-> [s EXCEPT !.log_state[r][log] =
                    [ls EXCEPT !.last_read = seqno,
                               !.topics = LmMoveToBack(
                                  [ls.topics EXCEPT ![i].next_seqno = Add64(seqno, 1)], i)]],
           st |-> "OK", prev |-> ls.topics[i].next_seqno]
     ELSE [s |-> [s EXCEPT !.log_state[r][log].last_read = seqno],
           st |-> "OK", prev |-> 0]

\* ProcessRecord that advances the topic to seqno + 2 (a fault C29 must
\* notice).
ProcessRecordSkipsOne(s, r, log, seqno, topic) ==
  LET ls == s.log_state[r][log]
      i == LmFind(ls.topics, topic)
  IN IF ~ls.open THEN [s |-> s, st |-> "NotFound", prev |-> 0]
     ELSE IF seqno # Add64(ls.last_read, 1)
     THEN [s |-> s, st |-> "NotFound", prev |-> 0]
     ELSE IF i # 0
     THEN [s |-> [s EXCEPT !.log_state[r][log] =
                    [ls EXCEPT !.last_read = seqno,
                               !.topics = LmMoveToBack(
                                  [ls.topics EXCEPT ![i].next_seqno = Add64(seqno, 2)], i)]],
           st |-> "OK", prev |-> ls.topics[i].next_seqno]
     ELSE [s |-> [s EXCEPT !.log_state[r][log].last_read = seqno],
           st |-> "OK", prev |-> 0]

\* LogReader::ProcessRecord: [s, st, prev]
ProcessRecord(s, r, log, seqno, topic) ==
  LET ls == s.log_state[r][log]
      i == LmFind(ls.topics, topic)
  IN IF ~ls.open THEN [s |-> s, st |-> "NotFound", prev |-> 0]
     ELSE IF seqno # Add64(ls.last_read, 1)
     THEN [s |-> s, st |-> "NotFound", prev |-> 0]
     ELSE IF i # 0
     THEN [s |-> [s EXCEPT !.log_state[r][log] =
                    [ls EXCEPT !.last_read = seqno,
                               !.topics = LmMoveToBack(
                                  [ls.topics EXCEPT ![i].next_seqno = Add64(seqno, 1)], i)]],
           st |-> "OK", prev |-> ls.topics[i].next_seqno]
     ELSE [s |-> [s EXCEPT !.log_state[r][log].last_read = seqno],
           st |-> "OK", prev |-> 0]

\* LogReader::ValidateGap: the status
ValidateGap(s, r, log, from) ==
  LET ls == s.log_state[r][log]
  IN IF ~ls.open THEN "NotFound"
     ELSE IF from # Add64(ls.last_read, 1) THEN "NotFound"
     ELSE "OK"

\* ProcessGap that forgets the topic's next_seqno and reports prev = 0 (a
\* fault C15 must notice).
ProcessGapNoPrev(s, r, log, topic, type, from, to, prev_seqno) ==
  LET ls == s.log_state[r][log]
      i == LmFind(ls.topics, topic)
  IN IF ls.open /\ i # 0
     THEN [s |-> [s EXCEPT !.log_state[r][log].topics = LmMoveToBack(
                              [ls.topics EXCEPT ![i].next_seqno = Add64(to, 1)], i)],
           prev |-> 0]
     ELSE [s |-> s, prev |-> 0]

\* LogReader::ProcessGap: [s, prev]; a failed assert is noted in s.asserted.
\* prev_seqno is the value *prev_seqno holds when the call is made, which
\* the branch of a log that is not open leaves as it is.
ProcessGap(s, r, log, topic, type, from, to, prev_seqno) ==
  LET ls == s.log_state[r][log]
      i == LmFind(ls.topics, topic)
      bad == ~ls.open \/ from # Add64(ls.last_read, 1)
  IN IF ~ls.open THEN [s |-> [s EXCEPT !.asserted = TRUE], prev |-> prev_seqno]
     ELSE IF i # 0
     THEN [s |-> [s EXCEPT !.log_state[r][log].topics = LmMoveToBack(
                              [ls.topics EXCEPT ![i].next_seqno = Add64(to, 1)], i),
                           !.asserted = @ \/ bad \/ ls.topics[i].next_seqno = 0],
           prev |-> ls.topics[i].next_seqno]
     ELSE [s |-> [s EXCEPT !.asserted = @ \/ bad], prev |-> 0]

\* LogReader::FlushHistory
FlushHistory(s, r, log, seqno) ==
  IF s.log_state[r][log].open
  THEN [s EXCEPT !.log_state[r][log].start_seqno = seqno,
                 !.log_state[r][log].last_read = Sub64(seqno, 1)]
  ELSE s

\* LogReader::ProcessBenignGap
ProcessBenignGap(s, r, log, from, to) ==
  IF s.log_state[r][log].open
  THEN [s EXCEPT !.log_state[r][log].last_read = to]
  ELSE s

\* StartReading that leaves last_read at seqno instead of seqno - 1 after a
\* reseek (a fault C28 must notice).
StartReadingLastReadAtSeqno(s, r, topic, log, seqno) ==
  LET old == s.log_state[r][log]
      first_open == ~old.open
      ls0 == IF first_open
             THEN [open |-> TRUE, start_seqno |-> seqno,
                   last_read |-> Sub64(seqno, 1), topics |-> <<>>]
             ELSE old
      i == LmFind(ls0.topics, topic)
      reseek0 == IF i = 0 THEN TRUE ELSE seqno < ls0.topics[i].next_seqno
      topics1 == IF i = 0 THEN LmEmplaceFront(ls0.topics, topic, seqno)
                 ELSE LmMoveToFront(
                        [ls0.topics EXCEPT ![i].next_seqno = Min(@, seqno)], i)
      reseek == IF ~first_open /\ reseek0 THEN seqno <= ls0.last_read ELSE reseek0
      ls1 == [ls0 EXCEPT !.topics = topics1]
      t == IF reseek /\ ~IsVirtual(r)
           THEN TailerStartReading(s, log, seqno, r, first_open)
           ELSE [s |-> s, ok |-> TRUE]
      ls2 == IF reseek /\ t.ok
             THEN [ls1 EXCEPT !.start_seqno = Min(@, seqno), !.last_read = seqno]
             ELSE ls1
  IN [s |-> [t.s EXCEPT !.log_state[r][log] = ls2], ok |-> t.ok]

\* LogReader::StartReading: [s, ok]
StartReading(s, r, topic, log, seqno) ==
  LET old == s.log_state[r][log]
      first_open == ~old.open
      ls0 == IF first_open
             THEN [open |-> TRUE, start_seqno |-> seqno,
                   last_read |-> Sub64(seqno, 1), topics |-> <<>>]
             ELSE old
      i == LmFind(ls0.topics, topic)
      reseek0 == IF i = 0 THEN TRUE ELSE seqno < ls0.topics[i].next_seqno
      topics1 == IF i = 0 THEN LmEmplaceFront(ls0.topics, topic, seqno)
                 ELSE LmMoveToFront(
                        [ls0.topics EXCEPT ![i].next_seqno = Min(@, seqno)], i)
      reseek == IF ~first_open /\ reseek0 THEN seqno <= ls0.last_read ELSE reseek0
      ls1 == [ls0 EXCEPT !.topics = topics1]
      t == IF reseek /\ ~IsVirtual(r)
           THEN TailerStartReading(s, log, seqno, r, first_open)
           ELSE [s |-> s, ok |-> TRUE]
      ls2 == IF reseek /\ t.ok
             THEN [ls1 EXCEPT !.start_seqno = Min(@, seqno),
                              !.last_read = Sub64(seqno, 1)]
             ELSE ls1
  IN [s |-> [t.s EXCEPT !.log_state[r][log] = ls2], ok |-> t.ok]

\* StopReading that erases a topic only while others remain, leaving the
\* reader's last topic and the log in place (a fault C36 must notice).
StopReadingKeepsLast(s, r, topic, log) ==
  LET ls == s.log_state[r][log]
      i == LmFind(ls.topics, topic)
      topics1 == LmErase(ls.topics, i)
  IN IF ~ls.open \/ i = 0 \/ topics1 = <<>> THEN [s |-> s, ok |-> TRUE]
     ELSE [s |-> [s EXCEPT !.log_state[r][log].topics = topics1], ok |-> TRUE]

\* LogReader::StopReading: [s, ok]
StopReading(s, r, topic, log) ==
  LET ls == s.log_state[r][log]
      i == LmFind(ls.topics, topic)
      topics1 == LmErase(ls.topics, i)
      t == IF IsVirtual(r) THEN [s |-> s, ok |-> TRUE]
           ELSE TailerStopReading(s, log, r)
  IN IF ~ls.open \/ i = 0 THEN [s |-> s, ok |-> TRUE]
     ELSE IF topics1 # <<>>
     THEN [s |-> [s EXCEPT !.log_state[r][log].topics = topics1], ok |-> TRUE]
     ELSE IF t.ok
     THEN [s |-> [t.s EXCEPT !.log_state[r][log] = ClosedLog], ok |-> TRUE]
     ELSE [s |-> [t.s EXCEPT !.log_state[r][log].topics = topics1], ok |-> FALSE]

\* SubscriptionCost that takes a reader at seqno for one that has not reached
\* it (a fault C30 must notice).
SubscriptionCostAtSeqno(s, r, topic, log, seqno) ==
  LET ls == s.log_state[r][log]
      i == LmFind(ls.topics, topic)
  IN IF ~ls.open THEN kSubscriptionCostStart
     ELSE IF ls.last_read <= seqno THEN Sub64(seqno, ls.last_read)
     ELSE IF i = 0 THEN kSubscriptionCostRewind
     ELSE IF seqno < ls.topics[i].next_seqno THEN kSubscriptionCostRewind
     ELSE 0

\* LogReader::SubscriptionCost
SubscriptionCost(s, r, topic, log, seqno) ==
  LET ls == s.log_state[r][log]
      i == LmFind(ls.topics, topic)
  IN IF ~ls.open THEN kSubscriptionCostStart
     ELSE IF ls.last_read < seqno THEN Sub64(seqno, ls.last_read)
     ELSE IF i = 0 THEN kSubscriptionCostRewind
     ELSE IF seqno < ls.topics[i].next_seqno THEN kSubscriptionCostRewind
     ELSE 0

\* LogReader::CanMergeInto
CanMergeInto(s, src, dest, log) ==
  /\ s.log_state[src][log].open
  /\ s.log_state[dest][log].open
  /\ s.log_state[dest][log].last_read = s.log_state[src][log].last_read

\* The loop of LogReader::MergeInto over src.topics, from position k on.
RECURSIVE MergeTopics(_, _, _)
MergeTopics(src_topics, dest_topics, k) ==
  IF k > Len(src_topics) THEN dest_topics
  ELSE LET e == src_topics[k]
           i == LmFind(dest_topics, e.topic)
       IN MergeTopics(src_topics,
            IF i # 0
            THEN [dest_topics EXCEPT ![i].next_seqno = Min(@, e.next_seqno)]
            ELSE LmEmplaceBack(dest_topics, e.topic, e.next_seqno),
            k + 1)

\* MergeInto that keeps dest's next_seqno for a topic both readers track
\* instead of the minimum (a fault C7 must notice).
MergeIntoKeepDest(s, src, dest, log) ==
  LET src_topics == s.log_state[src][log].topics
      dest_topics == s.log_state[dest][log].topics
      merged == dest_topics \o
                SelectSeq(src_topics, LAMBDA e : LmFind(dest_topics, e.topic) = 0)
      s1 == [s EXCEPT !.log_state[dest][log].topics = merged,
                      !.log_state[src][log] = ClosedLog]
  IN TailerStopReading(s1, log, src).s

\* LogReader::MergeInto
MergeInto(s, src, dest, log) ==
  LET merged == MergeTopics(s.log_state[src][log].topics,
                            s.log_state[dest][log].topics, 1)
      s1 == [s EXCEPT !.log_state[dest][log].topics = merged,
                      !.log_state[src][log] = ClosedLog]
  IN TailerStopReading(s1, log, src).s

\* StealLogSubscriptions that copies the pending reader's LogState without
\* erasing it (a fault C26 must notice).
StealLogSubscriptionsKeepPending(s, r, from_reader, log) ==
  LET ls == s.log_state[from_reader][log]
      t == TailerStartReading(s, log, ls.start_seqno, r, TRUE)
  IN IF t.ok THEN [t.s EXCEPT !.log_state[r][log] = ls] ELSE t.s

\* LogReader::StealLogSubscriptions (this = r, reader = the pending reader)
StealLogSubscriptions(s, r, from_reader, log) ==
  LET ls == s.log_state[from_reader][log]
      t == TailerStartReading(s, log, ls.start_seqno, r, TRUE)
  IN IF t.ok
     THEN [t.s EXCEPT !.log_state[r][log] = ls,
                      !.log_state[from_reader][log] = ClosedLog]
     ELSE t.s

\* ------------------------------------------------------------- TopicTailer
\* A message handed to on_message_: prev/seqno are the two sequence numbers
\* of MessageData::SetSequenceNumbers or of MessageGap(from, to); exps are
\* the expected seqnos the recipients had when the message was built; via
\* names the code path that built it.
Msg(kind, topic, type, prev, seqno, rcpts, exps, via) ==
  [kind |-> kind, topic |-> topic, type |-> type, prev |-> prev,
   seqno |-> seqno, rcpts |-> rcpts, exps |-> exps, via |-> via]

\* What AttemptReaderMerges did: the readers merged, the topics both had
\* before MergeInto, and what MergeInto left behind.
NoMerge == [src |-> 0, dest |-> 0, stole |-> FALSE,
            src_topics |-> <<>>, dest_topics |-> <<>>,
            merged |-> <<>>, src_open |-> FALSE, stopped |-> FALSE]

\* The state a handler works on: the TopicTailer's members, the storage
\* reader positions, and what the handler has emitted so far.
Working(fail) ==
  [log_readers |-> log_readers,
   can_subscribe_past_end |-> can_subscribe_past_end,
   log_state |-> log_state, topic_map |-> topic_map,
   tail_seqno_cached |-> tail_seqno_cached,
   stream_subscriptions |-> stream_subscriptions,
   cursor |-> cursor, find_reqs |-> find_reqs, data_cache |-> data_cache,
   out |-> <<>>, calls |-> <<>>, stats |-> {}, asserted |-> FALSE,
   bumped |-> <<>>, merge |-> NoMerge, fail |-> fail]

Count(s, counter) == [s EXCEPT !.stats = @ \cup {counter}]

\* TopicTailer::GetTailSeqnoEstimate
GetTailSeqnoEstimate(s, log) == s.tail_seqno_cached[log]

\* The on_bump callback TopicTailer::SendLogRecord passes.
OnBump(s, log, topic, bump_seqno, next_seqno) ==
  LET v == VisitSubscribers(s.topic_map[log][topic], bump_seqno, next_seqno,
                            Add64(next_seqno, 1))
  IN IF v.rcpts # <<>>
     THEN Count([s EXCEPT !.topic_map[log][topic] = v.list,
                          !.out = Append(@, Msg("gap", topic, "benign", bump_seqno,
                                                next_seqno, v.rcpts, v.exps, "bump"))],
                "bumped_subscriptions")
     ELSE s

\* BumpLaggingSubscriptions that bumps one seqno late (a fault C39 must
\* notice): the front topic is left alone while next_seqno + lag + 1 >= seqno.
RECURSIVE BumpLaggingSubscriptionsLate(_, _, _, _)
BumpLaggingSubscriptionsLate(s, r, log, seqno) ==
  LET ls == s.log_state[r][log]
  IN IF ~ls.open \/ ls.topics = <<>> THEN s
     ELSE LET tseqno == ls.topics[1].next_seqno
          IN IF Add64(tseqno, max_subscription_lag + 1) < seqno
             THEN LET s1 == OnBump(s, log, ls.topics[1].topic, tseqno, seqno)
                      s2 == [s1 EXCEPT !.bumped = Append(@, ls.topics[1].topic),
                                       !.log_state[r][log].topics =
                               LmMoveToBack(
                                 [ls.topics EXCEPT ![1].next_seqno = Add64(seqno, 1)], 1)]
                  IN BumpLaggingSubscriptionsLate(s2, r, log, seqno)
             ELSE s

\* LogReader::BumpLaggingSubscriptions with that callback; s.bumped notes the
\* topics on_bump was invoked for, in order.
RECURSIVE BumpLaggingSubscriptions(_, _, _, _)
BumpLaggingSubscriptions(s, r, log, seqno) ==
  LET ls == s.log_state[r][log]
  IN IF ~ls.open \/ ls.topics = <<>> THEN s
     ELSE LET tseqno == ls.topics[1].next_seqno
          IN IF Add64(tseqno, max_subscription_lag) < seqno
             THEN LET s1 == OnBump(s, log, ls.topics[1].topic, tseqno, seqno)
                      s2 == [s1 EXCEPT !.bumped = Append(@, ls.topics[1].topic),
                                       !.log_state[r][log].topics =
                               LmMoveToBack(
                                 [ls.topics EXCEPT ![1].next_seqno = Add64(seqno, 1)], 1)]
                  IN BumpLaggingSubscriptions(s2, r, log, seqno)
             ELSE s

\* The body of the loop of AttemptReaderMerges once CanMergeInto(dest) holds:
\* MergeInto(dest), then StealLogSubscriptions if the pending reader has the
\* log open.
MergeAndSteal(s, src, dest, log) ==
  LET s1 == MergeInto(s, src, dest, log)
      steal == IsLogOpen(s1, PendingId, log)
      s2 == IF steal
            THEN StealLogSubscriptions(s1, src, PendingId, log)
            ELSE s1
  IN [s2 EXCEPT !.merge =
        [src |-> src, dest |-> dest, stole |-> steal,
         src_topics |-> s.log_state[src][log].topics,
         dest_topics |-> s.log_state[dest][log].topics,
         merged |-> s1.log_state[dest][log].topics,
         src_open |-> IsLogOpen(s1, src, log),
         stopped |-> \E k2 \in 1..Len(s1.calls) :
                       /\ s1.calls[k2].op = "StopReading"
                       /\ s1.calls[k2].reader = src
                       /\ s1.calls[k2].log = log]]

\* TopicTailer::AttemptReaderMerges, from position k of log_readers_ on.
RECURSIVE AttemptReaderMergesFrom(_, _, _, _)
AttemptReaderMergesFrom(s, src, log, k) ==
  IF k > Len(s.log_readers) THEN s
  ELSE IF src # s.log_readers[k] /\ CanMergeInto(s, src, s.log_readers[k], log)
  THEN MergeAndSteal(s, src, s.log_readers[k], log)
  ELSE AttemptReaderMergesFrom(s, src, log, k + 1)

\* AttemptReaderMerges that walks log_readers_ from its end (a fault C26
\* must notice): src is merged into the last reader it can merge into.
RECURSIVE AttemptReaderMergesDownFrom(_, _, _, _)
AttemptReaderMergesDownFrom(s, src, log, k) ==
  IF k < 1 THEN s
  ELSE IF src # s.log_readers[k] /\ CanMergeInto(s, src, s.log_readers[k], log)
  THEN MergeAndSteal(s, src, s.log_readers[k], log)
  ELSE AttemptReaderMergesDownFrom(s, src, log, k - 1)

AttemptReaderMergesLast(s, src, log) ==
  AttemptReaderMergesDownFrom(s, src, log, Len(s.log_readers))

AttemptReaderMerges(s, src, log) == AttemptReaderMergesFrom(s, src, log, 1)

\* DataCache::StoreData: the record is cached unless it is cached already;
\* a cache over its capacity drops its oldest record.
StoreData(s, topic, seqno) ==
  LET c == s.data_cache
      known == \E k \in 1..Len(c.entries) : c.entries[k].seqno = seqno
      added == Append(c.entries, [seqno |-> seqno, topic |-> topic])
  IN IF known THEN s
     ELSE [s EXCEPT !.data_cache.entries =
             IF Len(added) > c.capacity THEN Tail(added) ELSE added]

\* The cached records with seqno in from..to, in seqno order.
RECURSIVE CachedFrom(_, _, _)
CachedFrom(entries, from, to) ==
  IF from > to THEN <<>>
  ELSE LET here == {k \in 1..Len(entries) : entries[k].seqno = from}
       IN (IF here = {} THEN <<>> ELSE <<entries[CHOOSE k \in here : TRUE]>>)
          \o CachedFrom(entries, from + 1, to)

\* DataCache::VisitCache: the records visited, which are the cached records
\* with seqno >= seqno in order, and the seqno past the last of them.
VisitCache(s, log, seqno) ==
  LET visited == CachedFrom(s.data_cache.entries, seqno, MaxSeq)
  IN [visited |-> visited,
      seqno |-> IF visited = <<>> THEN seqno
                ELSE Add64(visited[Len(visited)].seqno, 1)]

\* The on_message_cache callback of DeliverFromCache run over visited[k..]:
\* [s, delivered].
RECURSIVE OnMessageCache(_, _, _, _, _, _)
OnMessageCache(s, topic, id, visited, k, delivered) ==
  IF k > Len(visited) THEN [s |-> s, delivered |-> delivered]
  ELSE IF visited[k].topic = topic
  THEN OnMessageCache(
         Count([s EXCEPT !.out = Append(@, Msg("data", topic, "data", delivered,
                                               visited[k].seqno, <<id>>,
                                               <<delivered>>, "cache"))],
               "records_served_from_cache"),
         topic, id, visited, k + 1, Add64(visited[k].seqno, 1))
  ELSE OnMessageCache(s, topic, id, visited, k + 1, delivered)

\* TopicTailer::DeliverFromCache: [s, seqno].
DeliverFromCache(s, topic, id, log, seqno) ==
  IF s.data_cache.capacity = 0 THEN [s |-> s, seqno |-> seqno]
  ELSE LET v == VisitCache(s, log, seqno)
           d == OnMessageCache(s, topic, id, v.visited, 1, seqno)
       IN [s |-> IF v.seqno > d.delivered
                 THEN [d.s EXCEPT !.out = Append(@, Msg("gap", topic, "benign",
                                                        d.delivered, Sub64(v.seqno, 1),
                                                        <<id>>, <<d.delivered>>, "cache"))]
                 ELSE d.s,
           seqno |-> v.seqno]

\* The tail update of the SendLogRecord command without its comparison (a
\* fault C21 must notice): any record overwrites an estimate that exists.
RecordTailEstimateAnyRecord(s, log, next_seqno) ==
  IF s.tail_seqno_cached[log] # 0
  THEN Count([s EXCEPT !.tail_seqno_cached[log] = Add64(next_seqno, 1)],
             "tail_records_received")
  ELSE Count(s, "backlog_records_received")

\* The part of the SendLogRecord command that updates tail_seqno_cached_.
RecordTailEstimate(s, log, next_seqno) ==
  IF s.tail_seqno_cached[log] # 0 /\ s.tail_seqno_cached[log] <= next_seqno
  THEN Count([s EXCEPT !.tail_seqno_cached[log] = Add64(next_seqno, 1)],
             "tail_records_received")
  ELSE Count(s, "backlog_records_received")

\* The SendLogRecord command without the test prev_seqno != 0 (a fault C32
\* must notice): a record of a topic the reader does not track is delivered.
RecordCommandDeliversUntracked(s, cmd) ==
  LET p == ProcessRecord(Count(s, "log_records_received"),
                         cmd.reader, cmd.log, cmd.seqno, cmd.topic)
      s1 == RecordTailEstimate(IF p.s.data_cache.capacity > 0
                               THEN StoreData(p.s, cmd.topic, cmd.seqno)
                               ELSE p.s,
                               cmd.log, cmd.seqno)
      v == VisitSubscribers(s1.topic_map[cmd.log][cmd.topic], p.prev, cmd.seqno,
                            Add64(cmd.seqno, 1))
      s2 == IF v.rcpts # <<>>
            THEN Count([s1 EXCEPT !.topic_map[cmd.log][cmd.topic] = v.list,
                                  !.out = Append(@, Msg("data", cmd.topic, "data", p.prev,
                                                        cmd.seqno, v.rcpts, v.exps, "record"))],
                       "log_records_with_subscriptions")
            ELSE Count(s1, "log_records_without_subscriptions")
      s3 == IF p.st = "OK"
            THEN BumpLaggingSubscriptions(s2, cmd.reader, cmd.log, cmd.seqno)
            ELSE Count(s1, "log_records_out_of_order")
  IN [s |-> AttemptReaderMerges(s3, cmd.reader, cmd.log), st |-> p.st, prev |-> p.prev]

\* The command TopicTailer::SendLogRecord forwards to the room thread.
RecordCommand(s, cmd) ==
  LET p == ProcessRecord(Count(s, "log_records_received"),
                         cmd.reader, cmd.log, cmd.seqno, cmd.topic)
      s1 == RecordTailEstimate(IF p.s.data_cache.capacity > 0
                               THEN StoreData(p.s, cmd.topic, cmd.seqno)
                               ELSE p.s,
                               cmd.log, cmd.seqno)
      v == VisitSubscribers(s1.topic_map[cmd.log][cmd.topic], p.prev, cmd.seqno,
                            Add64(cmd.seqno, 1))
      s2 == IF v.rcpts # <<>>
            THEN Count([s1 EXCEPT !.topic_map[cmd.log][cmd.topic] = v.list,
                                  !.out = Append(@, Msg("data", cmd.topic, "data", p.prev,
                                                        cmd.seqno, v.rcpts, v.exps, "record"))],
                       "log_records_with_subscriptions")
            ELSE Count(s1, "log_records_without_subscriptions")
      s3 == IF p.prev # 0 /\ p.st = "OK"
            THEN BumpLaggingSubscriptions(s2, cmd.reader, cmd.log, cmd.seqno)
            ELSE Count(s1, "log_records_out_of_order")
  IN [s |-> AttemptReaderMerges(s3, cmd.reader, cmd.log), st |-> p.st, prev |-> p.prev]

\* The visitor the SendGapRecord command passes to VisitTopics; its local
\* prev_seqno is declared without a value and holds prev_seqno.
GapVisitTopic(s, cmd, topic, prev_seqno) ==
  LET g == ProcessGap(s, cmd.reader, cmd.log, topic, cmd.type, cmd.from, cmd.to,
                      prev_seqno)
      s1 == IF g.s.tail_seqno_cached[cmd.log] # 0
               /\ g.s.tail_seqno_cached[cmd.log] <= cmd.to
            THEN [g.s EXCEPT !.tail_seqno_cached[cmd.log] = Add64(cmd.to, 1)]
            ELSE g.s
      v == VisitSubscribers(s1.topic_map[cmd.log][topic], g.prev, cmd.to,
                            Add64(cmd.to, 1))
  IN IF v.rcpts # <<>>
     THEN Count([s1 EXCEPT !.topic_map[cmd.log][topic] = v.list,
                           !.out = Append(@, Msg("gap", topic, cmd.type, g.prev,
                                                 cmd.to, v.rcpts, v.exps, "gap"))],
                "gap_records_with_subscriptions")
     ELSE Count(s1, "gap_records_without_subscriptions")

\* TopicManager::VisitTopics with that visitor, from position k of the
\* order the map iterates in; only topics that are in topic_map_ are visited.
RECURSIVE GapVisitTopics(_, _, _, _, _)
GapVisitTopics(s, cmd, order, prev_seqno, k) ==
  IF k > Len(order) THEN s
  ELSE GapVisitTopics(
         IF s.topic_map[cmd.log][order[k]] # <<>>
         THEN GapVisitTopic(s, cmd, order[k], prev_seqno) ELSE s,
         cmd, order, prev_seqno, k + 1)

\* The command TopicTailer::SendGapRecord forwards to the room thread, run
\* when topic_map_ iterates in order and the visitor's prev_seqno starts as
\* prev_seqno.
GapCommand(s, cmd, order, prev_seqno) ==
  LET st == ValidateGap(s, cmd.reader, cmd.log, cmd.from)
      s0 == Count(s, "gap_records_received")
      s1 == GapVisitTopics(s0, cmd, order, prev_seqno, 1)
      s2 == IF cmd.type = "benign"
            THEN ProcessBenignGap(Count(s1, "benign_gaps_received"),
                                  cmd.reader, cmd.log, cmd.from, cmd.to)
            ELSE FlushHistory(Count(s1, "malignant_gaps_received"),
                              cmd.reader, cmd.log, Add64(cmd.to, 1))
  IN IF st # "OK"
     THEN [s |-> Count(s0, "gap_records_out_of_order"), st |-> st, prev |-> 0]
     ELSE [s |-> AttemptReaderMerges(s2, cmd.reader, cmd.log), st |-> st, prev |-> 0]

\* StreamSubscriptions (the index <<stream_id, sub_id>> -> topic).
SsInsert(ss, id, topic) == [ss EXCEPT ![id] = topic]
SsRemove(ss, id) == [ss EXCEPT ![id] = NoTopic]
SsRemoveStream(ss, stream) ==
  [id \in Ids |-> IF id[1] = stream THEN NoTopic ELSE ss[id]]

\* The loop of ReaderForNewSubscription with <= in place of < (a fault C24
\* must notice): the last reader of equal cost wins, also over the pending
\* reader.
RECURSIVE BestReaderFromLast(_, _, _, _, _, _, _)
BestReaderFromLast(s, topic, log, seqno, k, best_reader, best_cost) ==
  IF k > Len(s.log_readers) THEN best_reader
  ELSE LET reader == s.log_readers[k]
           reader_cost == SubscriptionCost(s, reader, topic, log, seqno)
       IN IF reader_cost <= best_cost
          THEN BestReaderFromLast(s, topic, log, seqno, k + 1, reader, reader_cost)
          ELSE BestReaderFromLast(s, topic, log, seqno, k + 1, best_reader, best_cost)

\* The loop of TopicTailer::ReaderForNewSubscription from position k on.
RECURSIVE BestReaderFrom(_, _, _, _, _, _, _)
BestReaderFrom(s, topic, log, seqno, k, best_reader, best_cost) ==
  IF k > Len(s.log_readers) THEN best_reader
  ELSE LET reader == s.log_readers[k]
           reader_cost == SubscriptionCost(s, reader, topic, log, seqno)
       IN IF reader_cost < best_cost
          THEN BestReaderFrom(s, topic, log, seqno, k + 1, reader, reader_cost)
          ELSE BestReaderFrom(s, topic, log, seqno, k + 1, best_reader, best_cost)

\* ReaderForNewSubscription that falls back on the first physical reader
\* instead of the pending reader (a fault C25 must notice).
ReaderForNewSubscriptionNoPending(s, topic, log, seqno) ==
  BestReaderFrom(s, topic, log, seqno, 1, s.log_readers[1], kSubscriptionCostRewind)

\* TopicTailer::ReaderForNewSubscription
ReaderForNewSubscription(s, topic, log, seqno) ==
  IF Len(s.log_readers) = 1 THEN s.log_readers[1]
  ELSE BestReaderFrom(s, topic, log, seqno, 1, PendingId, kSubscriptionCostRewind)

\* TopicTailer::AddSubscriberInternal after its call of DeliverFromCache:
\* s is the state the cache delivery left and seqno the seqno it returned.
AddSubscriberAt(s, topic, id, log, seqno) ==
  LET a == TmAddSubscriber(s.topic_map[log], topic, seqno, id)
      s1 == [s EXCEPT !.topic_map[log] = a.tm]
      s2 == IF a.added THEN Count(s1, "updated_subscriptions") ELSE s1
      from == IF s.can_subscribe_past_end THEN seqno ELSE Sub64(seqno, 1)
      reader == ReaderForNewSubscription(s2, topic, log, from)
      s3 == StartReading(s2, reader, topic, log, from).s
  IN [s3 EXCEPT !.stream_subscriptions = SsInsert(@, id, topic)]

\* TopicTailer::AddSubscriberInternal
AddSubscriberInternal(s, topic, id, log, seqno) ==
  AddSubscriberAt(DeliverFromCache(s, topic, id, log, seqno).s, topic, id, log,
                  DeliverFromCache(s, topic, id, log, seqno).seqno)

\* AddTailSubscriber whose gap ends at seqno instead of seqno - 1 (a fault
\* C11 must notice).
AddTailSubscriberGapToSeqno(s, topic, id, log, seqno) ==
  AddSubscriberInternal(
    [s EXCEPT !.out = Append(@, Msg("gap", topic, "benign", 0, seqno,
                                    <<id>>, <<0>>, "tail"))],
    topic, id, log, seqno)

\* TopicTailer::AddTailSubscriber
AddTailSubscriber(s, topic, id, log, seqno) ==
  AddSubscriberInternal(
    [s EXCEPT !.out = Append(@, Msg("gap", topic, "benign", 0, Sub64(seqno, 1),
                                    <<id>>, <<0>>, "tail"))],
    topic, id, log, seqno)

\* The command the FindLatestSeqno callback forwards to the room thread.
TailCommand(s, cmd) ==
  LET s1 == AddTailSubscriber(s, cmd.topic, cmd.id, cmd.log, cmd.seqno)
  IN [s |-> [s1 EXCEPT !.tail_seqno_cached[cmd.log] =
                         IF @ = 0 THEN cmd.seqno ELSE Max(@, cmd.seqno)],
      st |-> "OK", prev |-> 0]

\* AddSubscriber that swallows the router's error (a fault C20 must notice).
AddSubscriberStatusOk(topic) == "OK"

\* The status TopicTailer::AddSubscriber returns: the router's error, or OK.
AddSubscriberStatus(topic) == IF GetLogID(topic) = 0 THEN "Internal" ELSE "OK"

\* TopicTailer::AddSubscriber; seqno_ok tells whether the call of
\* LogTailer::FindLatestSeqno, if one is made, returns OK.
AddSubscriber(s, topic, start, id, seqno_ok) ==
  LET log == GetLogID(topic)
      s0 == Count(s, "add_subscriber_requests")
      tail_seqno == GetTailSeqnoEstimate(s0, log)
      call == [op |-> "FindLatestSeqno", log |-> log, seqno |-> 0,
               reader |-> 0, first_open |-> FALSE]
      s1 == [Count(Count(s0, "add_subscriber_requests_at_0"),
                   "add_subscriber_requests_at_0_slow")
               EXCEPT !.calls = Append(@, call)]
  IN IF log = 0 THEN s0
     ELSE IF start = 0
     THEN IF tail_seqno # 0
          THEN AddTailSubscriber(
                 Count(Count(s0, "add_subscriber_requests_at_0"),
                       "add_subscriber_requests_at_0_fast"),
                 topic, id, log, tail_seqno)
          ELSE IF seqno_ok
          THEN [s1 EXCEPT !.find_reqs =
                            @ (+) SetToBag({[topic |-> topic, id |-> id, log |-> log]})]
          ELSE s1
     ELSE AddSubscriberInternal(s0, topic, id, log, start)

\* The loop of RemoveSubscriberInternal over log_readers_, from position k.
RECURSIVE StopReaders(_, _, _, _)
StopReaders(s, topic, log, k) ==
  IF k > Len(s.log_readers) THEN s
  ELSE StopReaders(StopReading(s, s.log_readers[k], topic, log).s, topic, log, k + 1)

\* RemoveSubscriberInternal that erases the tail estimate whenever a topic
\* loses its last subscriber, whether or not a reader still has the log
\* open (a fault C17 must notice).
RemoveSubscriberInternalEraseTail(s, topic, id, log) ==
  LET rm == TmRemoveSubscriber(s.topic_map[log], topic, id)
      s1 == [s EXCEPT !.topic_map[log] = rm.tm]
      s2 == StopReaders(s1, topic, log, 1)
      s3 == StopReading(s2, PendingId, topic, log).s
  IN IF rm.all_removed THEN [s3 EXCEPT !.tail_seqno_cached[log] = 0] ELSE s1

\* TopicTailer::RemoveSubscriberInternal(topic, id, logid)
RemoveSubscriberInternal(s, topic, id, log) ==
  LET rm == TmRemoveSubscriber(s.topic_map[log], topic, id)
      s1 == [s EXCEPT !.topic_map[log] = rm.tm]
      s2 == StopReaders(s1, topic, log, 1)
      s3 == StopReading(s2, PendingId, topic, log).s
      log_closed == \A r \in AllReaders :
                      (r = PendingId \/ \E k \in 1..Len(s.log_readers) : s.log_readers[k] = r)
                      => ~IsLogOpen(s3, r, log)
  IN IF rm.all_removed
     THEN IF log_closed THEN [s3 EXCEPT !.tail_seqno_cached[log] = 0] ELSE s3
     ELSE s1

\* TopicTailer::RemoveSubscriber(CopilotSub): [s, st]
RemoveSubscriber(s, id) ==
  LET topic == s.stream_subscriptions[id]
      s0 == Count(s, "remove_subscriber_requests")
  IN IF topic = NoTopic THEN [s |-> s0, st |-> "NotFound"]
     ELSE [s |-> [RemoveSubscriberInternal(
                    [s0 EXCEPT !.stream_subscriptions = SsRemove(@, id)],
                    topic, id, GetLogID(topic))
                  EXCEPT !.stream_subscriptions = SsRemove(@, id)],
           st |-> "OK"]

\* The orders in which StreamSubscriptions::VisitSubscriptions may meet the
\* ids stream has in the index ss: the index is an unordered map.
IdOrders(ss, stream) ==
  Orders({id \in Ids : id[1] = stream /\ ss[id] # NoTopic})

\* TopicTailer::RemoveSubscriberInternal(stream_id), from position k of the
\* order the index iterates in.
RECURSIVE RemoveStreamFrom(_, _, _, _)
RemoveStreamFrom(s, stream, order, k) ==
  IF k > Len(order) THEN s
  ELSE LET id == order[k]
           topic == s.stream_subscriptions[id]
       IN RemoveStreamFrom(
            IF id[1] = stream /\ topic # NoTopic
            THEN RemoveSubscriberInternal(s, topic, id, GetLogID(topic))
            ELSE s,
            stream, order, k + 1)

\* TopicTailer::RemoveSubscriber(StreamID)
RemoveSubscriberStream(s, stream, order) ==
  [RemoveStreamFrom(s, stream, order, 1) EXCEPT
     !.stream_subscriptions = SsRemoveStream(@, stream)]

\* ---------------------------------------------------------------- storage
GapTypes == {"benign", "retention", "dataloss"}

\* The contents the storage log may have: position i holds a record of a
\* topic or belongs to a gap.
LogChoices ==
  { [i \in 1..MaxSeq |-> IF i = 3 THEN g ELSE IF i % 2 = 1 THEN "a" ELSE "b"] :
      g \in {"benign", "retention", "dataloss", "b"} }

\* The one of those contents with a benign gap at position 3.
BenignGapLog ==
  [i \in 1..MaxSeq |-> IF i = 3 THEN "benign" ELSE IF i % 2 = 1 THEN "a" ELSE "b"]

\* The last position of the gap that starts at pos, among the written ones.
RECURSIVE GapEnd(_, _, _)
GapEnd(log_content, pos, limit) ==
  IF pos < limit /\ log_content[pos + 1] = log_content[pos]
  THEN GapEnd(log_content, pos + 1, limit) ELSE pos

Command(kind, log, reader, topic, id, type, from, to) ==
  [kind |-> kind, log |-> log, reader |-> reader, topic |-> topic, id |-> id,
   type |-> type, from |-> from, to |-> to, seqno |-> to]

NoId == <<0, 0>>

\* TopicTailer::Forward called on storage thread t: the Write to the queue
\* of that thread, [queue, sent].
Forward(q, t, command) ==
  IF Len(q[t]) < QueueCap
  THEN [queue |-> [q EXCEPT ![t] = Append(@, command)], sent |-> TRUE]
  ELSE [queue |-> q, sent |-> FALSE]

\* ------------------------------------------------------------------ steps
\* The storage calls of the handler that were answered with an error.
Failed(s) ==
  {f \in s.fail : \E k \in 1..Len(s.calls) :
                    f = <<s.calls[k].op, s.calls[k].reader>>}

Event(kind, cmd, st, prev, s) ==
  [kind |-> kind, cmd |-> cmd, st |-> st, prev |-> prev,
   stats |-> s.stats, asserted |-> s.asserted, bumped |-> s.bumped,
   merge |-> s.merge, fail |-> Failed(s)]

NoCommand == Command("none", 1, 0, NoTopic, NoId, "none", 0, 0)

\* id is one of the recipients of message m.
Recipient(m, id) == \E j \in 1..Len(m.rcpts) : m.rcpts[j] = id

\* The seqno of the last message of msgs[k..] on topic delivered to id, or
\* base if there is none.
RECURSIVE LastDelivered(_, _, _, _, _)
LastDelivered(msgs, id, topic, k, base) ==
  IF k > Len(msgs) THEN base
  ELSE LastDelivered(msgs, id, topic, k + 1,
         IF msgs[k].topic = topic /\ Recipient(msgs[k], id)
         THEN msgs[k].seqno ELSE base)

\* The room thread's members and the storage positions become those of s.
Commit(s, subscribed) ==
  /\ log_state' = s.log_state
  /\ topic_map' = s.topic_map
  /\ tail_seqno_cached' = s.tail_seqno_cached
  /\ stream_subscriptions' = s.stream_subscriptions
  /\ cursor' = s.cursor
  /\ find_reqs' = s.find_reqs
  /\ data_cache' = s.data_cache
  /\ out' = s.out
  /\ calls' = s.calls
  /\ last_next' = [id \in Ids |-> [topic \in Topics |->
                     LastDelivered(s.out, id, topic, 1,
                                   IF <<id, topic>> \in subscribed THEN 0
                                   ELSE last_next[id][topic])]]

Config == <<log_readers, can_subscribe_past_end, slog, budget>>

\* The state after CreateNewInstance and Initialize(reader_ids, lag) of a
\* room built with a cache_size_per_room in capacities.
InitCache(reader_ids, past_end, contents, client_calls, capacities) ==
  /\ log_readers \in reader_ids
  /\ can_subscribe_past_end \in past_end
  /\ data_cache \in {[capacity |-> capacity, entries |-> <<>>] :
                       capacity \in capacities}
  /\ log_state = [r \in AllReaders |-> [l \in Logs |-> ClosedLog]]
  /\ topic_map = [l \in Logs |-> [t \in Topics |-> <<>>]]
  /\ tail_seqno_cached = [l \in Logs |-> 0]
  /\ stream_subscriptions = [id \in Ids |-> NoTopic]
  /\ queue = [t \in StorageThreads |-> <<>>]
  /\ slog \in contents
  /\ written = MaxSeq - 1
  /\ cursor = [r \in AllReaders |-> [l \in Logs |-> ClosedCursor]]
  /\ find_reqs = EmptyBag
  /\ out = <<>>
  /\ calls = <<>>
  /\ ev = Event("init", NoCommand, "OK", 0, Working({}))
  /\ ops = 0
  /\ last_next = [id \in Ids |-> [topic \in Topics |-> 0]]
  /\ removed = {}
  /\ owed = {}
  /\ budget = client_calls

\* The state after CreateNewInstance and Initialize(reader_ids, lag) of a
\* room built with cache_size_per_room = 0.
InitWith(reader_ids, past_end, contents, client_calls) ==
  InitCache(reader_ids, past_end, contents, client_calls, {0})

\* A publisher's record (or a gap) reaches the storage log.
Publish ==
  /\ written < MaxSeq
  /\ written' = written + 1
  /\ ev' = Event("Publish", NoCommand, "OK", 0, Working({}))
  /\ out' = <<>> /\ calls' = <<>>
  /\ UNCHANGED <<Config, log_state, topic_map, tail_seqno_cached, data_cache,
                 stream_subscriptions, queue, cursor, find_reqs, ops, last_next, removed, owed>>

\* The entry the storage reader r delivers next: the log starts at seqno 1,
\* so a reader positioned before it is given the first entry of the log.
Reached(r, log) == Max(cursor[r][log].next, 1)

\* SendLogRecord that never reports NoBuffer (a fault C10 must notice).
SendLogRecordStatusOk(sent) == "OK"

\* The status TopicTailer::SendLogRecord returns.
SendLogRecordStatus(sent) == IF sent THEN "OK" ELSE "NoBuffer"

\* TopicTailer::SendLogRecord, called by a storage thread with the record
\* the storage reader r has reached.
SendLogRecord(r, force_failure) ==
  LET log == 1
      pos == Reached(r, log)
      cmd == Command("record", log, r, slog[pos], NoId, "data", pos, pos)
      f == Forward(queue, ThreadOf(r), cmd)
      sent == ~force_failure /\ f.sent
  IN /\ cursor[r][log].reading
     /\ pos <= written
     /\ slog[pos] \in Topics
     /\ queue' = IF sent THEN f.queue ELSE queue
     /\ cursor' = IF sent THEN [cursor EXCEPT ![r][log].next = pos + 1] ELSE cursor
     /\ ev' = Event("SendLogRecord", cmd, SendLogRecordStatus(sent), 0,
                    Working({}))
     /\ out' = <<>> /\ calls' = <<>>
     /\ UNCHANGED <<Config, log_state, topic_map, tail_seqno_cached, data_cache,
                    stream_subscriptions, written, find_reqs, ops, last_next, removed, owed>>

\* TopicTailer::SendGapRecord, called by a storage thread with the gap the
\* storage reader r has reached.
SendGapRecord(r) ==
  LET log == 1
      pos == Reached(r, log)
      to == GapEnd(slog, pos, written)
      cmd == Command("gap", log, r, NoTopic, NoId, slog[pos], pos, to)
      f == Forward(queue, ThreadOf(r), cmd)
  IN /\ cursor[r][log].reading
     /\ pos <= written
     /\ slog[pos] \in GapTypes
     /\ queue' = f.queue
     /\ cursor' = IF f.sent THEN [cursor EXCEPT ![r][log].next = to + 1] ELSE cursor
     /\ ev' = Event("SendGapRecord", cmd, IF f.sent THEN "OK" ELSE "NoBuffer", 0,
                    Working({}))
     /\ out' = <<>> /\ calls' = <<>>
     /\ UNCHANGED <<Config, log_state, topic_map, tail_seqno_cached, data_cache,
                    stream_subscriptions, written, find_reqs, ops, last_next, removed, owed>>

\* The callback without its status check (a fault C19 must notice): the
\* tail command is forwarded whatever status the storage reports.
FindLatestSeqnoCallbackAnyStatus(req, t, status_ok) ==
  LET cmd == Command("tail", req.log, 0, req.topic, req.id, "none",
                     written + 1, written + 1)
      f == Forward(queue, t, cmd)
  IN /\ BagIn(req, find_reqs)
     /\ find_reqs' = find_reqs (-) SetToBag({req})
     /\ queue' = f.queue
     /\ ev' = Event("FindLatestSeqnoCallback", cmd,
                    IF ~status_ok THEN "Internal"
                    ELSE IF f.sent THEN "OK" ELSE "NoBuffer", 0, Working({}))
     /\ out' = <<>> /\ calls' = <<>>
     /\ UNCHANGED <<Config, log_state, topic_map, tail_seqno_cached, data_cache,
                    stream_subscriptions, written, cursor, ops, last_next, removed, owed>>

\* One of the callbacks AddSubscriber passed to FindLatestSeqno, run by
\* storage thread t with the status of the request and the next seqno to be
\* written.  The event notes the status given and whether the command was
\* forwarded.
FindLatestSeqnoCallback(req, t, status_ok) ==
  LET cmd == Command("tail", req.log, 0, req.topic, req.id, "none",
                     written + 1, written + 1)
      f == Forward(queue, t, cmd)
  IN /\ BagIn(req, find_reqs)
     /\ find_reqs' = find_reqs (-) SetToBag({req})
     /\ queue' = IF status_ok THEN f.queue ELSE queue
     /\ ev' = Event("FindLatestSeqnoCallback", cmd,
                    IF ~status_ok THEN "Internal"
                    ELSE IF f.sent THEN "OK" ELSE "NoBuffer", 0, Working({}))
     /\ out' = <<>> /\ calls' = <<>>
     /\ UNCHANGED <<Config, log_state, topic_map, tail_seqno_cached, data_cache,
                    stream_subscriptions, written, cursor, ops, last_next, removed, owed>>

\* The room thread runs the command at the head of the queue of storage
\* thread t while the storage fails the calls in fail; if the command is a
\* gap, topic_map_ iterates in order and the visitor's prev_seqno starts as
\* prev_seqno.
RoomCommandWith(fail, t, order, prev_seqno) ==
  /\ queue[t] # <<>>
  /\ \E cmd \in {Head(queue[t])} :
       \E res \in {IF cmd.kind = "record" THEN RecordCommand(Working(fail), cmd)
                   ELSE IF cmd.kind = "gap"
                   THEN GapCommand(Working(fail), cmd, order, prev_seqno)
                   ELSE TailCommand(Working(fail), cmd)} :
         /\ Commit(res.s, IF cmd.kind = "tail" THEN {<<cmd.id, cmd.topic>>} ELSE {})
         /\ ev' = Event(cmd.kind, cmd, res.st, res.prev, res.s)
         /\ owed' = {o \in owed :
                       /\ ~\E k \in 1..Len(res.s.out) :
                             /\ Recipient(res.s.out[k], o[1])
                             /\ res.s.out[k].kind = "data"
                             /\ res.s.out[k].seqno = o[2]
                       /\ ~(cmd.kind = "tail" /\ cmd.id = o[1]
                              /\ cmd.topic = slog[o[2]])}
  /\ queue' = [queue EXCEPT ![t] = Tail(@)]
  /\ UNCHANGED <<Config, written, ops, removed>>

\* The room thread runs the head of the queue of storage thread t; the
\* storage accepts every StartReading and StopReading call.
RoomCommand(t, order, prev_seqno) == RoomCommandWith({}, t, order, prev_seqno)

\* The records of topic a subscriber added at start is behind of: in a room
\* with one physical reader that has the log open at last_read >= start > 0,
\* the written records of topic with seqno in [start, last_read].
Passed(topic, start, id) ==
  IF /\ topic \in Topics /\ Len(log_readers) = 1 /\ start > 0
     /\ log_state[log_readers[1]][1].open
  THEN {<<id, k>> : k \in {j \in 1..written :
                             /\ slog[j] = topic /\ start <= j
                             /\ j <= log_state[log_readers[1]][1].last_read}}
  ELSE {}

\* The StartReading calls and the StopReading calls of the storage.
StartCalls == {"StartReading"} \X PhysicalIds
StopCalls == {"StopReading"} \X PhysicalIds
\* The ways the storage may answer the StopReading calls of one client call,
\* each reader's call on its own, when it fails at least one of them.
StopFaults == SUBSET StopCalls \ {{}}
\* The ways the storage may be failing during a step of the room thread.
StorageFaults == {StartCalls, StopCalls, StartCalls \cup StopCalls}

\* The room thread runs AddSubscriber(topic, start, id) while the storage
\* fails the calls in fail.
DoAddSubscriberWith(fail, topic, start, id, seqno_ok) ==
  /\ ops < budget
  /\ \E s \in {AddSubscriber(Working(fail), topic, start, id, seqno_ok)} :
     /\ ops' = ops + 1
     /\ Commit(s, IF topic \in Topics THEN {<<id, topic>>} ELSE {})
     /\ removed' = removed \ {id}
     /\ ev' = Event("AddSubscriber",
                    Command("add", GetLogID(topic), 0, topic, id, "none", start, start),
                    AddSubscriberStatus(topic), 0, s)
     /\ owed' = {o \in owed : ~(o[1] = id /\ slog[o[2]] = topic)}
                  \cup Passed(topic, start, id)
     /\ UNCHANGED <<Config, written, queue>>

\* The room thread runs AddSubscriber(topic, start, id); the storage accepts
\* every StartReading and StopReading call.
DoAddSubscriber(topic, start, id, seqno_ok) ==
  DoAddSubscriberWith({}, topic, start, id, seqno_ok)

\* The room thread runs AddSubscriber(topic, start, id) while the storage
\* fails every StartReading call.
DoAddSubscriberStorageDown(topic, start, id) ==
  DoAddSubscriberWith(StartCalls, topic, start, id, TRUE)

\* The room thread runs RemoveSubscriber(id) while the storage fails the
\* calls in fail.
DoRemoveSubscriberWith(fail, id) ==
  /\ ops < budget
  /\ \E res \in {RemoveSubscriber(Working(fail), id)} :
     /\ ops' = ops + 1
     /\ Commit(res.s, {})
     /\ removed' = removed \cup {id}
     /\ owed' = {o \in owed : o[1] # id}
     /\ ev' = Event("RemoveSubscriber",
                    Command("remove", 1, 0, stream_subscriptions[id], id, "none", 0, 0),
                    res.st, 0, res.s)
     /\ UNCHANGED <<Config, written, queue>>

\* The room thread runs RemoveSubscriber(id); the storage accepts every
\* StopReading call.
DoRemoveSubscriber(id) == DoRemoveSubscriberWith({}, id)

\* The room thread runs RemoveSubscriber(id) while the storage fails the
\* StopReading calls of some readers, one or more.
DoRemoveSubscriberStorageDown(id) ==
  \E fail \in StopFaults : DoRemoveSubscriberWith(fail, id)

\* The room thread runs RemoveSubscriber(stream_id) when the index iterates
\* in order, while the storage fails the calls in fail.
DoRemoveStreamWith(fail, stream, order) ==
  /\ ops < budget
  /\ \E s \in {RemoveSubscriberStream(Working(fail), stream, order)} :
     /\ ops' = ops + 1
     /\ Commit(s, {})
     /\ removed' = removed \cup {id \in Ids : id[1] = stream}
     /\ owed' = {o \in owed : o[1][1] # stream}
     /\ ev' = Event("RemoveStream",
                    Command("remove_stream", 1, 0, NoTopic, <<stream, 0>>, "none", 0, 0),
                    "OK", 0, s)
     /\ UNCHANGED <<Config, written, queue>>

\* The room thread runs RemoveSubscriber(stream_id); the storage accepts
\* every StopReading call.
DoRemoveStream(stream, order) == DoRemoveStreamWith({}, stream, order)

\* The room thread runs RemoveSubscriber(stream_id) while the storage fails
\* the StopReading calls of some readers, one or more.
DoRemoveStreamStorageDown(stream, order) ==
  \E fail \in StopFaults : DoRemoveStreamWith(fail, stream, order)

\* DataCache::ClearCache: the cache forgets its records.
DataCacheClearCache(c) == [c EXCEPT !.entries = <<>>]

\* The last n elements of seq.
LastN(seq, n) ==
  IF Len(seq) <= n THEN seq ELSE SubSeq(seq, Len(seq) - n + 1, Len(seq))

\* DataCache::SetCapacity: the cache holds at most newcapacity records from
\* now on and keeps the newest of those it has.
DataCacheSetCapacity(c, newcapacity) ==
  [capacity |-> newcapacity, entries |-> LastN(c.entries, newcapacity)]

\* The room thread runs TopicTailer::ClearCache().
DoClearCache ==
  /\ ops < budget /\ ops' = ops + 1
  /\ data_cache' = DataCacheClearCache(data_cache)
  /\ ev' = Event("ClearCache", NoCommand, "OK", 0, Working({}))
  /\ out' = <<>> /\ calls' = <<>>
  /\ UNCHANGED <<Config, log_state, topic_map, tail_seqno_cached,
                 stream_subscriptions, queue, written, cursor, find_reqs,
                 last_next, removed, owed>>

\* The room thread runs TopicTailer::SetCacheCapacity(newcapacity).
DoSetCacheCapacity(newcapacity) ==
  /\ ops < budget /\ ops' = ops + 1
  /\ data_cache' = DataCacheSetCapacity(data_cache, newcapacity)
  /\ ev' = Event("SetCacheCapacity", NoCommand, "OK", 0, Working({}))
  /\ out' = <<>> /\ calls' = <<>>
  /\ UNCHANGED <<Config, log_state, topic_map, tail_seqno_cached,
                 stream_subscriptions, queue, written, cursor, find_reqs,
                 last_next, removed, owed>>

\* The orders topic_map_ may iterate in when the room thread runs the head
\* of the queue of storage thread t: the order matters to a gap command that
\* finds more than one topic in the map.
OrdersFor(t) ==
  IF queue[t] # <<>> /\ Head(queue[t]).kind = "gap"
  THEN TopicOrders(topic_map[Head(queue[t]).log])
  ELSE {<<>>}

\* The values the visitor's prev_seqno may hold when ProcessGap leaves it
\* unwritten, which it does for a gap on a log the reader has not open.
UninitialisedFor(t) ==
  IF /\ queue[t] # <<>> /\ Head(queue[t]).kind = "gap"
     /\ ~log_state[Head(queue[t]).reader][Head(queue[t]).log].open
  THEN Indeterminate
  ELSE {0}

\* The orders the index may iterate in when RemoveSubscriber(stream) runs:
\* the order matters when the stream has more than one subscription.
IdOrdersFor(stream) == IdOrders(stream_subscriptions, stream)

\* The storage threads a FindLatestSeqno callback may run on: a callback
\* that reports a failure writes to no queue.
ThreadsFor(status_ok) == IF status_ok THEN StorageThreads ELSE {1}

\* The results the call of FindLatestSeqno may have in AddSubscriber(topic,
\* start, id): the call is made for start = 0 on a log without tail
\* estimate.
SeqnoOkFor(topic, start) ==
  IF start = 0 /\ topic \in Topics /\ tail_seqno_cached[GetLogID(topic)] = 0
  THEN BOOLEAN
  ELSE {TRUE}

\* The room thread runs the command at the head of one of its queues.
RoomStep ==
  \E t \in StorageThreads :
    \E order \in OrdersFor(t), prev_seqno \in UninitialisedFor(t) :
      RoomCommand(t, order, prev_seqno)

\* The ways a failing storage may answer the calls of the command at the
\* head of the queue of storage thread t: a tail command starts a reader,
\* a record or gap command calls the storage when its reader merges into
\* another one that has the log open.
FaultsFor(t) ==
  IF /\ queue[t] # <<>>
     /\ \/ Head(queue[t]).kind = "tail"
        \/ \E r \in PhysicalIds \ {Head(queue[t]).reader} :
             log_state[r][Head(queue[t]).log].open
  THEN StorageFaults
  ELSE {}

\* The room thread runs the command at the head of one of its queues while
\* the storage is failing.
RoomStepStorageDown ==
  \E t \in StorageThreads :
    \E fail \in FaultsFor(t), order \in OrdersFor(t),
       prev_seqno \in UninitialisedFor(t) :
      RoomCommandWith(fail, t, order, prev_seqno)

\* Rooms with one or two physical readers, built with or without a data
\* cache; the log of a room with a data cache has the benign gap.
Init ==
  \/ InitCache({<<1>>, <<1, 2>>}, BOOLEAN, LogChoices, MaxOps, {0})
  \/ InitCache({<<1>>, <<1, 2>>}, BOOLEAN, {BenignGapLog}, MaxOps, {CacheCap})

\* The steps of the room thread and of the storage threads that call the
\* TopicTailer; the log does not grow.
TailerNext ==
  \/ \E r \in PhysicalIds, force_failure \in BOOLEAN : SendLogRecord(r, force_failure)
  \/ \E r \in PhysicalIds : SendGapRecord(r)
  \/ \E req \in BagToSet(find_reqs), status_ok \in BOOLEAN :
       \E t \in ThreadsFor(status_ok) : FindLatestSeqnoCallback(req, t, status_ok)
  \/ RoomStep
  \/ \E topic \in ClientTopics \cup {Unroutable}, start \in 0..MaxStart,
          id \in ClientIds :
       \E seqno_ok \in SeqnoOkFor(topic, start) :
         DoAddSubscriber(topic, start, id, seqno_ok)
  \/ \E id \in ClientIds : DoRemoveSubscriber(id)
  \/ \E stream \in Streams :
       \E order \in IdOrdersFor(stream) : DoRemoveStream(stream, order)
  \/ DoClearCache
  \/ \E newcapacity \in 0..CacheCap : DoSetCacheCapacity(newcapacity)

Next == Publish \/ TailerNext

Spec == Init /\ [][Next]_vars

\* The storage threads keep delivering what their readers have reached and
\* retry after NoBuffer; the room thread keeps draining its queue.
Enqueues(A) == A /\ queue' # queue

\* The steps that take the head off the queue of storage thread t are the
\* RoomCommand steps on t.
RoomRanOn(t) == queue[t] # <<>> /\ queue' = [queue EXCEPT ![t] = Tail(@)]

RoomRan == \E t \in StorageThreads : RoomRanOn(t)

\* The command a RoomCommand step runs.
Taken == Head(queue[CHOOSE t \in StorageThreads : RoomRanOn(t)])

\* No command waits for the room thread.
NoCommands == \A t \in StorageThreads : queue[t] = <<>>

\* This step puts cmd at the back of the queue of storage thread t.
EnqueuedOn(t, cmd) == queue' = [queue EXCEPT ![t] = Append(@, cmd)]

Fairness ==
  /\ \A t \in StorageThreads : WF_queue(RoomRanOn(t))
  /\ \A r \in PhysicalIds : SF_vars(Enqueues(SendLogRecord(r, FALSE)))
  /\ \A r \in PhysicalIds : SF_vars(Enqueues(SendGapRecord(r)))

\* A room with two physical readers whose storage supports subscribing past
\* the end; the log has one content.
FairInit == InitWith({<<1, 2>>}, {TRUE}, {BenignGapLog}, MaxOps)

FairSpec == FairInit /\ [][Next]_vars /\ Fairness

\* The steps of a room whose storage may fail the StartReading and the
\* StopReading calls of the room thread.
StorageFailNext ==
  \/ Next
  \/ \E topic \in ClientTopics, start \in 0..MaxStart, id \in ClientIds :
       DoAddSubscriberStorageDown(topic, start, id)
  \/ \E id \in ClientIds : DoRemoveSubscriberStorageDown(id)
  \/ \E stream \in Streams :
       \E order \in IdOrdersFor(stream) : DoRemoveStreamStorageDown(stream, order)
  \/ RoomStepStorageDown

\* Rooms with one or two physical readers whose log has one content.
StorageFailInit == InitWith({<<1>>, <<1, 2>>}, BOOLEAN, {BenignGapLog}, MaxOps)

StorageFailSpec == StorageFailInit /\ [][StorageFailNext]_vars

\* Rooms whose clients make one call more, so that with two physical readers
\* a subscription can find both of them ahead of it; the storage supports
\* subscribing past the end, the log has one content and nothing more is
\* published.
DeepInit ==
  InitWith({<<1>>, <<1, 2>>}, {TRUE}, {BenignGapLog}, MaxOps + 1)

DeepSpec == DeepInit /\ [][TailerNext]_vars

\* Rooms built with or without a data cache; the storage supports
\* subscribing past the end and the log has one content.
CacheInit ==
  InitCache({<<1>>, <<1, 2>>}, {TRUE}, {BenignGapLog}, MaxOps,
            {0, CacheCap})

CacheSpec == CacheInit /\ [][Next]_vars

\* Rooms with two physical readers whose clients make two calls more, so that
\* a reader can close after a subscription was placed on the pending reader.
ParkedInit ==
  InitWith({<<1, 2>>}, {TRUE}, {BenignGapLog}, MaxOps + 2)

\* The topic a subscriber of a parked room subscribes to.
OwnTopic(id) == IF id = <<1, 1>> THEN "a" ELSE IF id = <<1, 2>> THEN "b" ELSE "c"

\* The steps of a room in which no storage or router call fails, each
\* subscriber keeps to one topic and gives a start seqno, no stream goes
\* away and nothing more is published.
ParkedNext ==
  \/ \E r \in PhysicalIds : SendLogRecord(r, FALSE)
  \/ \E r \in PhysicalIds : SendGapRecord(r)
  \/ RoomStep
  \/ \E start \in 1..MaxStart, id \in ClientIds :
       DoAddSubscriber(OwnTopic(id), start, id, TRUE)
  \/ \E id \in ClientIds : DoRemoveSubscriber(id)

ParkedSpec == ParkedInit /\ [][ParkedNext]_vars /\ Fairness

\* Rooms whose clients make three calls: a pool of two readers whose storage
\* supports subscribing past the end, in which a subscription can be parked
\* on the pending reader, and a pool of three readers whose storage does
\* not, in which three subscriptions from seqno 1 open the three readers at
\* the same last_read.
MergeInit ==
  \/ InitWith({<<1, 2>>}, {TRUE}, {BenignGapLog}, MaxOps + 1)
  \/ InitWith({<<3, 1, 2>>}, {FALSE}, {BenignGapLog}, MaxOps + 1)

\* The subscribers of such a room: as many as the pool has readers.
PoolClients == {id \in Ids : id[2] <= Len(log_readers)}

\* The seqnos they subscribe from: from seqno 1 in a pool of three.
PoolStarts == IF Len(log_readers) = 3 THEN {1} ELSE 1..MaxStart

\* The steps of such a room: each subscriber keeps to one topic and gives a
\* start seqno, nobody unsubscribes, nothing more is published, and the
\* storage may fail the calls of the room thread's commands.
MergeNext ==
  \/ \E r \in PhysicalIds : SendLogRecord(r, FALSE)
  \/ \E r \in PhysicalIds : SendGapRecord(r)
  \/ RoomStep
  \/ RoomStepStorageDown
  \/ \E start \in PoolStarts, id \in PoolClients :
       DoAddSubscriber(OwnTopic(id), start, id, TRUE)

MergeSpec == MergeInit /\ [][MergeNext]_vars

\* Rooms built with or without a data cache whose clients make three calls,
\* so that a subscription can be added twice in a row after a reader has
\* filled the cache.
PairInit ==
  InitCache({<<1>>, <<1, 2>>}, BOOLEAN, {BenignGapLog}, MaxOps + 1,
            {0, CacheCap})

PairSpec == PairInit /\ [][ParkedNext]_vars

\* The steps of a room whose subscribers keep to one topic each and, when
\* they go away, may find the storage failing StopReading; a subscriber may
\* subscribe at the tail, nothing more is published.
RemoveNext ==
  \/ \E r \in PhysicalIds : SendLogRecord(r, FALSE)
  \/ \E r \in PhysicalIds : SendGapRecord(r)
  \/ \E req \in BagToSet(find_reqs) : FindLatestSeqnoCallback(req, 1, TRUE)
  \/ RoomStep
  \/ \E start \in 0..MaxStart, id \in ClientIds :
       DoAddSubscriber(OwnTopic(id), start, id, TRUE)
  \/ \E id \in ClientIds : DoRemoveSubscriber(id)
  \/ \E id \in ClientIds : DoRemoveSubscriberStorageDown(id)

\* Rooms with two physical readers whose clients make four calls, so that
\* the last subscriber of a topic can go away while the topic is parked on
\* the pending reader or tracked by the second reader.
RemoveSpec == ParkedInit /\ [][RemoveNext]_vars

\* A room with exactly one physical reader.
OneReaderInit == InitWith({<<1>>}, BOOLEAN, LogChoices, MaxOps)

OneReaderSpec == OneReaderInit /\ [][Next]_vars /\ Fairness

\* ------------------------------------------------------------- properties
\* The subscription of id on topic in the TopicManager of the log.
Subscribed(id, topic) == SubIndex(topic_map[1][topic], id) # 0
Expected(id, topic) == topic_map[1][topic][SubIndex(topic_map[1][topic], id)].seqno

\* The last step was a client call about id.
ClientCall(id) ==
  \/ ev.kind \in {"AddSubscriber", "RemoveSubscriber", "tail"} /\ ev.cmd.id = id
  \/ ev.kind = "RemoveStream" /\ ev.cmd.id[1] = id[1]

\* The seqno of the last message on m's topic delivered to id before the
\* k-th message of this step: within the step, or before it since id last
\* subscribed to the topic.
DeliveredBefore(k, id) ==
  LET m == out'[k]
      fresh == /\ ev'.kind \in {"AddSubscriber", "tail"}
               /\ ev'.cmd.id = id /\ ev'.cmd.topic = m.topic
  IN LastDelivered(SubSeq(out', 1, k - 1), id, m.topic, 1,
                   IF fresh THEN 0 ELSE last_next[id][m.topic])

\* C1 (as amended): every message (prev, next) a step delivers to a
\* subscriber S of topic T has prev <= S's expected_next <= next, and next
\* is not below the next of the message delivered to S on T before it.
C1_DeliveriesInOrder ==
  [][\A k \in 1..Len(out') : \A j \in 1..Len(out'[k].rcpts) :
       /\ out'[k].prev <= out'[k].exps[j]
       /\ out'[k].exps[j] <= out'[k].seqno
       /\ DeliveredBefore(k, out'[k].rcpts[j]) <= out'[k].seqno]_vars

\* C1 as stated: next is non-decreasing along the deliveries to S, and each
\* message's prev equals S's expected_next when it is delivered.
C1_PrevEqualsExpected ==
  [][\A k \in 1..Len(out') : \A j \in 1..Len(out'[k].rcpts) :
       /\ out'[k].prev = out'[k].exps[j]
       /\ DeliveredBefore(k, out'[k].rcpts[j]) <= out'[k].seqno]_vars

\* C1 witness: a record has been delivered to a subscriber whose
\* expected_next is above the record's prev.
C1_Witness ==
  \E k \in 1..Len(out) : \E j \in 1..Len(out[k].rcpts) :
    /\ out[k].kind = "data" /\ out[k].prev > 0
    /\ out[k].exps[j] > out[k].prev
    /\ last_next[out[k].rcpts[j]][out[k].topic] = out[k].seqno

\* Subscriber id waits for the record at seqno: the record is in the log,
\* id is subscribed to its topic and expects a seqno that is not above it.
Waits(id, seqno) ==
  /\ seqno <= written
  /\ slog[seqno] \in Topics
  /\ Subscribed(id, slog[seqno])
  /\ Expected(id, slog[seqno]) <= seqno

\* The last step delivered to id the record at seqno, or a bump gap whose
\* `to` is seqno.
Served(id, seqno) ==
  \E k \in 1..Len(out) :
    /\ Recipient(out[k], id)
    /\ out[k].topic = slog[seqno]
    /\ out[k].seqno = seqno
    /\ out[k].via \in {"record", "bump"}

\* C2: a subscriber of T whose expected_next <= S, S a record of T, is
\* eventually delivered that record or a bump gap with to = S, unless the
\* client subscribes or unsubscribes it again first. Stated for the
\* subscriber <<1, 1>>; the ids of the model are interchangeable.
C2_EventuallyServed ==
  \A seqno \in 1..MaxSeq :
    Waits(<<1, 1>>, seqno) ~> (Served(<<1, 1>>, seqno) \/ ClientCall(<<1, 1>>))

\* C3: no message is delivered to an id whose latest client call was
\* RemoveSubscriber.
C3_NoDeliveryAfterRemove ==
  \A id \in removed : \A k \in 1..Len(out) : ~Recipient(out[k], id)

\* C4: a record or gap changes R[L].last_read only if L is open on R and the
\* event starts at last_read + 1, and then last_read becomes the event's
\* end; every other event is rejected and leaves R[L] as it was (unless the
\* merge attempt that ends the command closes it).
C4_InOrder ==
  [][(RoomRan /\ Taken.kind \in {"record", "gap"}) =>
       LET cmd == Taken
           before == log_state[cmd.reader][cmd.log]
           after == log_state'[cmd.reader][cmd.log]
           in_order == before.open /\ cmd.from = Add64(before.last_read, 1)
           merged == ev'.merge.src = cmd.reader
       IN /\ (~merged /\ after.last_read # before.last_read)
               => (in_order /\ after.last_read = cmd.to)
          /\ in_order => ev'.st = "OK"
          /\ ~in_order => (ev'.st # "OK" /\ (merged \/ after = before))]_vars

\* C4 witness: a reader has accepted an event that starts at its
\* last_read + 1, beyond the first seqno of the log.
C4_Witness ==
  /\ ev.kind \in {"record", "gap"} /\ ev.st = "OK" /\ ev.cmd.from > 1
  /\ log_state[ev.cmd.reader][ev.cmd.log].open
  /\ log_state[ev.cmd.reader][ev.cmd.log].last_read = ev.cmd.to

\* C5: after the room thread has processed a record at seqno S, every
\* subscription of the log has expected_next + max_subscription_lag >= S.
C5_BumpInvariant ==
  (ev.kind = "record" /\ ev.st = "OK") =>
    \A topic \in Topics : \A k \in 1..Len(topic_map[ev.cmd.log][topic]) :
      topic_map[ev.cmd.log][topic][k].seqno + max_subscription_lag >= ev.cmd.seqno

\* C6: after reader R has processed a malignant gap [from, to] on log L,
\* R[L].topics is empty, R[L].start_seqno = to + 1, R[L].last_read = to, and
\* the next record R processes yields prev = 0 whatever its topic.
C6_FlushedAfterMalignantGap ==
  (/\ ev.kind = "gap" /\ ev.st = "OK"
   /\ ev.cmd.type \in {"retention", "dataloss"}
   /\ ev.merge.src # ev.cmd.reader) =>
    LET ls == log_state[ev.cmd.reader][ev.cmd.log]
    IN /\ ls.topics = <<>>
       /\ ls.start_seqno = Add64(ev.cmd.to, 1)
       /\ ls.last_read = ev.cmd.to
       /\ \A topic \in Topics :
            ProcessRecord(Working({}), ev.cmd.reader, ev.cmd.log,
                          Add64(ev.cmd.to, 1), topic).prev = 0

\* C7: after src.MergeInto(dst, L), dst[L].topics holds exactly the topics
\* src[L] or dst[L] had, each once and with the minimum of the next_seqno it
\* had in the two; src has L closed; StopReading(L, src) was issued.
C7_MergeSafe ==
  ev.merge.src # 0 =>
    LET m == ev.merge
    IN /\ LmTopics(m.merged) = LmTopics(m.src_topics) \cup LmTopics(m.dest_topics)
       /\ Len(m.merged) = Cardinality(LmTopics(m.merged))
       /\ \A i \in 1..Len(m.merged) :
            LET a == LmFind(m.src_topics, m.merged[i].topic)
                b == LmFind(m.dest_topics, m.merged[i].topic)
            IN m.merged[i].next_seqno =
                 IF a # 0 /\ b # 0
                 THEN Min(m.src_topics[a].next_seqno, m.dest_topics[b].next_seqno)
                 ELSE IF a # 0 THEN m.src_topics[a].next_seqno
                 ELSE m.dest_topics[b].next_seqno
       /\ ~m.src_open
       /\ m.stopped

\* C7 witness: two readers were merged that both tracked a topic, at
\* different next_seqno.
C7_Witness ==
  /\ ev.merge.src # 0
  /\ \E i \in 1..Len(ev.merge.src_topics) : \E j \in 1..Len(ev.merge.dest_topics) :
       /\ ev.merge.src_topics[i].topic = ev.merge.dest_topics[j].topic
       /\ ev.merge.src_topics[i].next_seqno # ev.merge.dest_topics[j].next_seqno

\* The entries of id in the list of topic.
Entries(tm, topic, id) ==
  {k \in 1..Len(tm[topic]) : tm[topic][k].id = id}

\* This step is AddSubscriber(T, N, id), N # 0, run directly after the same
\* call.
AddsAgain ==
  /\ ops' = ops + 1
  /\ ev.kind = "AddSubscriber" /\ ev'.kind = "AddSubscriber"
  /\ ev'.cmd = ev.cmd /\ ev.cmd.from # 0 /\ ev.cmd.topic \in Topics

\* The seqnos from n on of which the data cache holds the record.
CachedSince(n) ==
  {data_cache.entries[k].seqno : k \in 1..Len(data_cache.entries)}
    \cap n..(MaxSeq + 1)

\* The seqno the cache fast-forward of AddSubscriberInternal moves a
\* subscription at n to: one past the last cached record at or after n, or
\* n if the cache is disabled or holds no such record.
FastForwarded(n) ==
  IF data_cache.capacity = 0 \/ CachedSince(n) = {} THEN n
  ELSE 1 + CHOOSE m \in CachedSince(n) : \A k \in CachedSince(n) : k <= m

\* The second of the two calls leaves TopicManager, the index and every
\* reader's LogState as the first left them, and id has one entry on T.
SecondAddChangesNothing ==
  [][AddsAgain =>
       /\ topic_map' = topic_map
       /\ stream_subscriptions' = stream_subscriptions
       /\ log_state' = log_state
       /\ Cardinality(Entries(topic_map'[ev.cmd.log], ev.cmd.topic, ev.cmd.id)) = 1]_vars

\* C8 (as amended): when AddSubscriber(T, N, id), N # 0, directly follows the
\* same call, TopicManager, the index and every reader's LogState are as the
\* first call left them, and id has exactly one entry on T, whose
\* expected_next is N if the data cache is disabled or holds no record at or
\* after N, and one past the last cached record otherwise.
C8_AddTwiceFastForward ==
  SecondAddChangesNothing /\
  [][AddsAgain =>
       \A k \in Entries(topic_map'[ev.cmd.log], ev.cmd.topic, ev.cmd.id) :
         topic_map'[ev.cmd.log][ev.cmd.topic][k].seqno
           = FastForwarded(ev.cmd.from)]_vars

\* C8 as stated: when AddSubscriber(T, N, id), N # 0, directly follows the same call,
\* TopicManager, the index and every reader's per-log state stay as the
\* first call left them, and id has exactly one entry on T, at N.
C8_AddTwice ==
  [][(/\ ops' = ops + 1
      /\ ev.kind = "AddSubscriber" /\ ev'.kind = "AddSubscriber"
      /\ ev'.cmd = ev.cmd /\ ev.cmd.from # 0 /\ ev.cmd.topic \in Topics) =>
       /\ topic_map' = topic_map
       /\ stream_subscriptions' = stream_subscriptions
       /\ log_state' = log_state
       /\ Cardinality(Entries(topic_map'[ev.cmd.log], ev.cmd.topic, ev.cmd.id)) = 1
       /\ \A k \in Entries(topic_map'[ev.cmd.log], ev.cmd.topic, ev.cmd.id) :
            topic_map'[ev.cmd.log][ev.cmd.topic][k].seqno = ev.cmd.from]_vars

\* C8 witness: an AddSubscriber(T, N, id), N # 0, ran for an id that had its
\* entry on T already and inserted none; the data cache held records at or
\* after N, the call served those of T, and the entry is one past the last
\* of them, above N.
C8_Witness ==
  /\ ev.kind = "AddSubscriber" /\ ev.cmd.from # 0
  /\ ev.cmd.topic \in Topics
  /\ "updated_subscriptions" \notin ev.stats
  /\ "records_served_from_cache" \in ev.stats
  /\ Cardinality(Entries(topic_map[ev.cmd.log], ev.cmd.topic, ev.cmd.id)) = 1
  /\ Expected(ev.cmd.id, ev.cmd.topic) = FastForwarded(ev.cmd.from)
  /\ Expected(ev.cmd.id, ev.cmd.topic) > ev.cmd.from

\* Nothing of the TopicTailer knows id: no index entry, no subscription, no
\* FindLatestSeqno request or tail command on its way.
Unknown(id) ==
  /\ stream_subscriptions[id] = NoTopic
  /\ \A topic \in Topics : Entries(topic_map[1], topic, id) = {}
  /\ \A req \in BagToSet(find_reqs) : req.id # id
  /\ \A t \in StorageThreads : \A k \in 1..Len(queue[t]) : queue[t][k].id # id

\* The state RemoveSubscriber(id) would leave if it ran right after this step.
ThenRemoved(id) == RemoveSubscriber(Working({})', id).s

\* This step is AddSubscriber(T, N, id) for an id nothing knew.
AddsUnknown ==
  ops' = ops + 1 /\ ev'.kind = "AddSubscriber" /\ Unknown(ev'.cmd.id)

\* C9 as stated: AddSubscriber(T, N, id) followed by RemoveSubscriber(id)
\* leaves TopicManager, the index, the tail estimate and every reader's
\* per-topic next_seqno and last_read as they were before the pair; a log
\* the pair leaves open on a reader that had it closed has subscribers.
C9_RoundTripExact ==
  [][AddsUnknown =>
       LET s2 == ThenRemoved(ev'.cmd.id)
       IN /\ s2.topic_map = topic_map
          /\ s2.stream_subscriptions = stream_subscriptions
          /\ s2.tail_seqno_cached = tail_seqno_cached
          /\ \A r \in AllReaders : \A l \in Logs :
               \/ /\ s2.log_state[r][l].topics = log_state[r][l].topics
                  /\ s2.log_state[r][l].last_read = log_state[r][l].last_read
               \/ /\ ~log_state[r][l].open /\ s2.log_state[r][l].open
                  /\ \E topic \in Topics : s2.topic_map[l][topic] # <<>>]_vars

\* The seqno the step's AddSubscriber(T, N, id) starts reading from on log l:
\* N, or the tail estimate when N = 0, moved past the records the data cache
\* holds from there on, less one unless the storage lets a reader subscribe
\* past the end.
ReadsFrom(l) ==
  LET seqno == FastForwarded(IF ev'.cmd.from # 0 THEN ev'.cmd.from
                             ELSE tail_seqno_cached[l])
  IN IF can_subscribe_past_end THEN seqno ELSE Sub64(seqno, 1)

\* C9 (as amended): AddSubscriber(T, N, id) followed by RemoveSubscriber(id)
\* leaves TopicManager, the index and the tail estimate as they were before
\* the pair.  A reader is not put back: one that had the log open still has
\* it open and still tracks every topic it tracked, none at a higher
\* next_seqno, and its last_read is what it was or one below the seqno the
\* subscription read from; one that had the log closed has it open only if
\* the log still has subscribers.
C9_RoundTrip ==
  [][AddsUnknown =>
       LET s2 == ThenRemoved(ev'.cmd.id)
       IN /\ s2.topic_map = topic_map
          /\ s2.stream_subscriptions = stream_subscriptions
          /\ s2.tail_seqno_cached = tail_seqno_cached
          /\ \A r \in AllReaders : \A l \in Logs :
               LET old == log_state[r][l]
                   new == s2.log_state[r][l]
               IN IF old.open
                  THEN /\ new.open
                       /\ \A i \in 1..Len(old.topics) :
                            LET j == LmFind(new.topics, old.topics[i].topic)
                            IN j # 0 /\ new.topics[j].next_seqno <= old.topics[i].next_seqno
                       /\ new.last_read \in {old.last_read, Sub64(ReadsFrom(l), 1)}
                  ELSE new.open =>
                       /\ \E topic \in Topics : s2.topic_map[l][topic] # <<>>
                       /\ new.last_read = Sub64(ReadsFrom(l), 1)]_vars

\* C9 witness: an AddSubscriber for an id nothing knew has rewound a reader
\* that had the log open, and the RemoveSubscriber that follows leaves the
\* subscriptions as they were before it.
C9_Witness ==
  /\ ev.kind = "AddSubscriber" /\ ops = 2
  /\ "updated_subscriptions" \in ev.stats
  /\ \E k \in 1..Len(calls) :
       calls[k].op = "StartReading" /\ ~calls[k].first_open
  /\ Entries(RemoveSubscriber(Working({}), ev.cmd.id).s.topic_map[ev.cmd.log],
              ev.cmd.topic, ev.cmd.id) = {}

\* C10: SendLogRecord returns NoBuffer exactly when it did not enqueue its
\* command, that is when the queue of its storage thread was full or the
\* fault was injected; then nothing of the TopicTailer has changed and the
\* storage reader still holds the record.  When it returns OK the command is
\* at the back of that queue, and the room thread runs the commands of a
\* queue one by one from the front.
C10_BackPressure ==
  [][/\ (ev'.kind = "SendLogRecord" /\ ~RoomRan) =>
          /\ (ev'.st = "NoBuffer") = (queue' = queue)
          /\ ev'.st \in {"OK", "NoBuffer"}
          /\ ev'.st = "NoBuffer" =>
               UNCHANGED <<log_state, topic_map, tail_seqno_cached,
                           stream_subscriptions, cursor, find_reqs>>
          /\ Len(queue[ThreadOf(ev'.cmd.reader)]) >= QueueCap => ev'.st = "NoBuffer"
          /\ ev'.st = "OK" =>
               /\ EnqueuedOn(ThreadOf(ev'.cmd.reader), ev'.cmd)
               /\ cursor'[ev'.cmd.reader][ev'.cmd.log].next = ev'.cmd.seqno + 1
     /\ ev'.kind = "record" => (RoomRan /\ ev'.cmd = Taken)
     /\ (\E t \in StorageThreads : Len(queue'[t]) < Len(queue[t])) =>
          (RoomRan /\ ev'.cmd = Taken)]_vars

\* C10 witness: a SendLogRecord returned OK and its command is at the back
\* of the queue of its storage thread while the queue of the other storage
\* thread is full with the command of another reader; the room thread has
\* commands of two producers to run.
C10_Witness ==
  /\ ev.kind = "SendLogRecord" /\ ev.st = "OK"
  /\ queue[ThreadOf(ev.cmd.reader)] # <<>>
  /\ queue[ThreadOf(ev.cmd.reader)][Len(queue[ThreadOf(ev.cmd.reader)])] = ev.cmd
  /\ \E t \in StorageThreads \ {ThreadOf(ev.cmd.reader)} :
       /\ Len(queue[t]) = QueueCap
       /\ Head(queue[t]).reader # ev.cmd.reader
       /\ Head(queue[t]).kind \in {"record", "gap"}

\* This step is the room thread running AddSubscriber(T, 0, id) for a
\* topic the router knows.
AddsAtTail ==
  ops' = ops + 1 /\ ev'.kind = "AddSubscriber" /\ ev'.cmd.from = 0
  /\ ev'.cmd.topic \in Topics

\* The benign gap (0, n - 1) AddTailSubscriber sends to id.
TailGap(topic, id, n) ==
  Msg("gap", topic, "benign", 0, Sub64(n, 1), <<id>>, <<0>>, "tail")

\* In TopicManager tm and index ss, id has exactly one subscription on
\* topic, with expected_next = n, and the index maps id to topic.
InstalledAt(tm, ss, id, topic, n) ==
  /\ Cardinality(Entries(tm, topic, id)) = 1
  /\ \A k \in Entries(tm, topic, id) : tm[topic][k].seqno = n
  /\ ss[id] = topic

\* C11: when the tail estimate of T's log is N # 0, AddSubscriber(T, 0, id)
\* issues no FindLatestSeqno request, sends id the benign gap (0, N - 1) and
\* nothing else, and leaves id installed with expected_next = N.
C11_FastPath ==
  [][(AddsAtTail /\ tail_seqno_cached[ev'.cmd.log] # 0) =>
       /\ find_reqs' = find_reqs
       /\ \A k \in 1..Len(calls') : calls'[k].op # "FindLatestSeqno"
       /\ out' = <<TailGap(ev'.cmd.topic, ev'.cmd.id,
                            tail_seqno_cached[ev'.cmd.log])>>
       /\ InstalledAt(topic_map'[ev'.cmd.log], stream_subscriptions',
                      ev'.cmd.id, ev'.cmd.topic,
                      tail_seqno_cached[ev'.cmd.log])]_vars

\* C11 witness: an AddSubscriber(T, 0, id) took the fast path with a tail
\* estimate above 1 and id is installed.
C11_Witness ==
  /\ ev.kind = "AddSubscriber" /\ ev.cmd.from = 0
  /\ "add_subscriber_requests_at_0_fast" \in ev.stats
  /\ Len(out) = 1 /\ out[1].via = "tail" /\ out[1].seqno >= 1
  /\ Subscribed(ev.cmd.id, ev.cmd.topic)

\* This step is a storage thread running the FindLatestSeqno callback.
CallbackRan ==
  ev'.kind = "FindLatestSeqnoCallback" /\ find_reqs' # find_reqs

\* This step is the room thread running the command of that callback.
TailCommandRan == RoomRan /\ Taken.kind = "tail"

\* C12: with no tail estimate, AddSubscriber(T, 0, id) issues
\* FindLatestSeqno and installs nothing, and neither does the callback; a
\* callback that reports seqno N gets its command to the room thread; and
\* when that command runs, id is sent the benign gap (0, N - 1), is
\* installed with expected_next = N, and the tail estimate is at least N
\* (what is sent and installed is checked in rooms without a data cache;
\* with one the command goes on to serve the cached records from N on).
C12_SlowPath ==
  [][/\ (AddsAtTail /\ tail_seqno_cached[ev'.cmd.log] = 0) =>
          /\ \E k \in 1..Len(calls') : calls'[k].op = "FindLatestSeqno"
          /\ out' = <<>>
          /\ UNCHANGED <<topic_map, stream_subscriptions, log_state,
                          tail_seqno_cached>>
     /\ CallbackRan =>
          /\ out' = <<>>
          /\ UNCHANGED <<topic_map, stream_subscriptions, log_state,
                          tail_seqno_cached>>
     /\ (CallbackRan /\ ev'.st # "Internal") =>
          \E t \in StorageThreads : EnqueuedOn(t, ev'.cmd)
     /\ TailCommandRan =>
          LET cmd == Taken
          IN /\ data_cache.capacity = 0 =>
                  /\ out' = <<TailGap(cmd.topic, cmd.id, cmd.seqno)>>
                  /\ InstalledAt(topic_map'[cmd.log], stream_subscriptions',
                                 cmd.id, cmd.topic, cmd.seqno)
             /\ tail_seqno_cached'[cmd.log] >= cmd.seqno]_vars

\* This step is AddSubscriber(T, s, A) in a room with one physical reader
\* whose last_read on the log is r, with 0 < s <= r.
AddsBehindReader ==
  /\ ops' = ops + 1 /\ ev'.kind = "AddSubscriber" /\ ev'.cmd.topic \in Topics
  /\ Len(log_readers) = 1
  /\ log_state[log_readers[1]][ev'.cmd.log].open
  /\ ev'.cmd.from > 0
  /\ ev'.cmd.from <= log_state[log_readers[1]][ev'.cmd.log].last_read

\* The step called storage StartReading(log, seqno, reader, first_open = false).
Rewinds(log, seqno, reader) ==
  \E k \in 1..Len(calls') :
    calls'[k] = [op |-> "StartReading", log |-> log, seqno |-> seqno,
                 reader |-> reader, first_open |-> FALSE]

\* The rewind as C13 states it: the storage reader is rewound to s.
RewindsToStart ==
  [][AddsBehindReader => Rewinds(ev'.cmd.log, ev'.cmd.from, log_readers[1])]_vars

\* The rewind as the code does it: the reader is rewound to the seqno the
\* subscription reads from (s, or s - 1 if the storage cannot subscribe
\* past the end), unless it tracks T with a next_seqno that is not above
\* it; then the storage is not called.
RewindsUnlessTracked ==
  [][AddsBehindReader =>
       LET r == log_readers[1]
           topics == log_state[r][ev'.cmd.log].topics
           i == LmFind(topics, ev'.cmd.topic)
       IN IF i # 0 /\ topics[i].next_seqno <= ReadsFrom(ev'.cmd.log)
          THEN calls' = <<>> /\ cursor' = cursor
          ELSE /\ Rewinds(ev'.cmd.log, ReadsFrom(ev'.cmd.log), r)
               /\ cursor'[r][ev'.cmd.log] =
                    [reading |-> TRUE, next |-> ReadsFrom(ev'.cmd.log)]]_vars

\* No record is delivered to a subscriber twice: a record sent to id has a
\* seqno above that of the message sent to id on the topic before it.
AtMostOnce ==
  [][\A k \in 1..Len(out') : \A j \in 1..Len(out'[k].rcpts) :
       out'[k].kind = "data" =>
         DeliveredBefore(k, out'[k].rcpts[j]) < out'[k].seqno]_vars

\* The replay: with one reader, a subscriber added behind the reader is in
\* the end sent every record of its topic the reader had passed, unless the
\* client removes or renews the subscription first.
Replayed == (owed # {}) ~> (owed = {})

\* The claim with the rewind exactly as stated: the storage reader is
\* rewound to s with first_open = false, whatever the storage supports and
\* whatever the reader tracks.
RewindToStartAndReplay == RewindsToStart /\ AtMostOnce /\ Replayed

\* C13: with one physical reader at last_read r, AddSubscriber(T, s, A),
\* 0 < s <= r, rewinds the storage reader with first_open = false, to s, or
\* to s - 1 if the storage cannot subscribe past the end, and not at all if
\* the reader tracks T from there or before; after the storage replays the
\* log A has been sent every record of T in [s, r], each once.
C13_RewindAndReplay == RewindsUnlessTracked /\ AtMostOnce /\ Replayed

\* This step is the room thread running a record command that its reader
\* accepts in order.
RecordAccepted ==
  /\ RoomRan /\ Taken.kind = "record"
  /\ log_state[Taken.reader][Taken.log].open
  /\ Taken.seqno =
       Add64(log_state[Taken.reader][Taken.log].last_read, 1)

\* The step sent id a benign gap (from, to) on topic.
SentGap(topic, from, to, id) ==
  \E k \in 1..Len(out') :
    /\ out'[k].kind = "gap" /\ out'[k].type = "benign"
    /\ out'[k].topic = topic /\ out'[k].prev = from /\ out'[k].seqno = to
    /\ Recipient(out'[k], id)

\* C14: when the reader tracks T1 at E, a subscriber A of T1 expects E, and
\* the reader accepts the record at seqno E + max_subscription_lag on another
\* topic T2 (with or without subscribers), A is sent the benign gap
\* (E, E + max_subscription_lag) and its expected_next moves past it; and a
\* record of T2 that leaves T1 within the lag sends A nothing on T1.
C14_BumpedAtLag ==
  [][RecordAccepted =>
       LET cmd == Taken
           topics == log_state[cmd.reader][cmd.log].topics
       IN \A i \in 1..Len(topics) :
            LET T1 == topics[i].topic
                E == topics[i].next_seqno
                subs == topic_map[cmd.log][T1]
            IN \A k \in 1..Len(subs) :
                 (T1 # cmd.topic /\ subs[k].seqno = E) =>
                   /\ Add64(E, max_subscription_lag) = cmd.seqno =>
                        /\ SentGap(T1, E, cmd.seqno, subs[k].id)
                        /\ topic_map'[cmd.log][T1][k].seqno > cmd.seqno
                   /\ Add64(E, max_subscription_lag) > cmd.seqno =>
                        \A m \in 1..Len(out') :
                          out'[m].topic = T1 => ~Recipient(out'[m], subs[k].id)]_vars

\* This step is the room thread running a gap command of a malignant type
\* that its reader accepts.
MalignantGapAccepted ==
  /\ RoomRan /\ Taken.kind = "gap"
  /\ Taken.type \in {"retention", "dataloss"}
  /\ ValidateGap(Working({}), Taken.reader, Taken.log,
                 Taken.from) = "OK"

\* The messages of the step on topic that have id among their recipients.
SentTo(topic, id) ==
  {m \in 1..Len(out') : out'[m].topic = topic /\ Recipient(out'[m], id)}

\* C15: when reader R accepts a malignant gap [from, to], for each topic T
\* that R tracks at next_seqno = p, every subscriber of T with expected_next
\* in [p, to] is sent exactly one gap message, of the gap's type and with
\* (p, to), and moves to to + 1; the other subscribers of T are sent nothing
\* and stay where they are.
C15_MalignantGapDelivered ==
  [][MalignantGapAccepted =>
       LET cmd == Taken
           topics == log_state[cmd.reader][cmd.log].topics
       IN \A i \in 1..Len(topics) :
            LET T == topics[i].topic
                subs == topic_map[cmd.log][T]
            IN \A k \in 1..Len(subs) :
                 IF topics[i].next_seqno <= subs[k].seqno /\ subs[k].seqno <= cmd.to
                 THEN /\ Cardinality(SentTo(T, subs[k].id)) = 1
                      /\ \A m \in SentTo(T, subs[k].id) :
                           /\ out'[m].kind = "gap" /\ out'[m].type = cmd.type
                           /\ out'[m].prev = topics[i].next_seqno
                           /\ out'[m].seqno = cmd.to
                           /\ Cardinality({j \in 1..Len(out'[m].rcpts) :
                                             out'[m].rcpts[j] = subs[k].id}) = 1
                      /\ topic_map'[cmd.log][T][k] =
                           [subs[k] EXCEPT !.seqno = Add64(cmd.to, 1)]
                 ELSE /\ SentTo(T, subs[k].id) = {}
                      /\ topic_map'[cmd.log][T][k] = subs[k]]_vars

\* C15 witness: a reader accepted a malignant gap and a subscriber of a
\* topic it tracked at p > 0 was sent the gap message (p, to).
C15_Witness ==
  /\ ev.kind = "gap" /\ ev.st = "OK" /\ ev.cmd.type \in {"retention", "dataloss"}
  /\ \E m \in 1..Len(out) :
       /\ out[m].kind = "gap" /\ out[m].type = ev.cmd.type
       /\ out[m].prev > 0 /\ out[m].seqno = ev.cmd.to /\ out[m].rcpts # <<>>
       /\ Expected(out[m].rcpts[1], out[m].topic) = ev.cmd.to + 1

\* C16: between room-thread commands the index maps id to topic T exactly
\* when TopicManager holds a subscription of id on T.
C16_IndexAgrees ==
  \A id \in Ids : \A topic \in Topics :
    (stream_subscriptions[id] = topic) <=> (Entries(topic_map[1], topic, id) # {})

\* This step is a RemoveSubscriber call that removes the last subscriber
\* of topic on log.
RemovesLast(topic, log) ==
  /\ ops' = ops + 1 /\ ev'.kind \in {"RemoveSubscriber", "RemoveStream"}
  /\ topic_map[log][topic] # <<>>
  /\ topic_map'[log][topic] = <<>>

\* The step called storage StopReading(log, reader).
Stops(log, reader) ==
  \E k \in 1..Len(calls') :
    /\ calls'[k].op = "StopReading"
    /\ calls'[k].log = log /\ calls'[k].reader = reader

\* The tail estimate of L after a step: erased if no reader has L open
\* afterwards, left as it was otherwise.
TailErasedIffClosed(log) ==
  tail_seqno_cached'[log] =
    IF \A r \in AllReaders : ~log_state'[r][log].open
    THEN 0 ELSE tail_seqno_cached[log]

\* C17 as stated: when a RemoveSubscriber call removes the last subscriber
\* of T on L, afterwards no reader, physical or pending, tracks T on L; a
\* reader whose only topic on L was T has L closed, a physical one after a
\* storage StopReading; and the tail estimate of L is erased if no reader
\* has L open afterwards and is left as it was otherwise.
C17_LastSubscriberStops ==
  [][\A topic \in Topics : \A log \in Logs :
       RemovesLast(topic, log) =>
         /\ \A r \in AllReaders :
              /\ topic \notin LmTopics(log_state'[r][log].topics)
              /\ (log_state[r][log].open
                   /\ LmTopics(log_state[r][log].topics) = {topic}) =>
                    /\ ~log_state'[r][log].open
                    /\ ~IsVirtual(r) => (Stops(log, r) /\ ~cursor'[r][log].reading)
         /\ TailErasedIffClosed(log)]_vars

\* C17 (as amended): when a RemoveSubscriber call removes the last
\* subscriber of T on L, afterwards no reader, physical or pending, tracks T
\* on L; a physical reader whose only topic on L was T issues the storage
\* StopReading and has L closed if the storage accepts it, and keeps L open
\* at its last_read with no topic, the storage still reading, if the storage
\* fails it; the pending reader closes L; a reader that tracks another topic
\* or did not track T keeps its LogState but for T; and the tail estimate of
\* L is erased if and only if no reader has L open afterwards.
C17_LastSubscriberStopsIfStorageDoes ==
  [][\A topic \in Topics : \A log \in Logs :
       RemovesLast(topic, log) =>
         /\ \A r \in AllReaders :
              LET before == log_state[r][log]
                  after == log_state'[r][log]
              IN /\ topic \notin LmTopics(after.topics)
                 /\ IF before.open /\ LmTopics(before.topics) = {topic}
                    THEN IF IsVirtual(r) THEN ~after.open
                         ELSE /\ Stops(log, r)
                              /\ IF <<"StopReading", r>> \in ev'.fail
                                 THEN /\ after = [before EXCEPT !.topics = <<>>]
                                      /\ cursor'[r][log] = cursor[r][log]
                                 ELSE /\ ~after.open
                                      /\ ~cursor'[r][log].reading
                    ELSE /\ after.open = before.open
                         /\ after.last_read = before.last_read
                         /\ after.start_seqno = before.start_seqno
                         /\ LmTopics(after.topics) = LmTopics(before.topics) \ {topic}
                         /\ cursor'[r][log] = cursor[r][log]
                         /\ ~Stops(log, r)
         /\ TailErasedIffClosed(log)]_vars

\* C17 witness: a RemoveSubscriber(id) removed the last subscriber of its
\* topic and a physical reader stopped reading the log for it, while
\* another reader keeps the log open for another topic; the tail estimate
\* is still there.
C17_Witness ==
  /\ ev.kind = "RemoveSubscriber" /\ ev.st = "OK" /\ ev.fail = {}
  /\ topic_map[ev.cmd.log][ev.cmd.topic] = <<>>
  /\ \E k \in 1..Len(calls) :
       /\ calls[k].op = "StopReading"
       /\ ~log_state[calls[k].reader][ev.cmd.log].open
  /\ \E r \in PhysicalIds :
       /\ log_state[r][ev.cmd.log].open
       /\ log_state[r][ev.cmd.log].topics # <<>>
  /\ tail_seqno_cached[ev.cmd.log] # 0

\* The room thread runs a record or gap that reader cmd.reader rejects for
\* ordering: the log is not open on it, or the event does not start at
\* last_read + 1.
Rejected ==
  /\ RoomRan /\ Taken.kind \in {"record", "gap"}
  /\ LET cmd == Taken
         before == log_state[cmd.reader][cmd.log]
     IN ~(before.open /\ cmd.from = Add64(before.last_read, 1))

\* The out-of-order counter of a command of that kind.
OutOfOrderCounter(kind) ==
  IF kind = "record" THEN "log_records_out_of_order" ELSE "gap_records_out_of_order"

\* A rejected event sends no message, leaves every subscription as it was
\* and increments its out-of-order counter.
Dropped ==
  [][Rejected =>
       /\ out' = <<>>
       /\ topic_map' = topic_map
       /\ OutOfOrderCounter(Taken.kind) \in ev'.stats]_vars

\* C18: a record or gap rejected for ordering is delivered to nobody,
\* changes no subscriber's expected_next, leaves the rejecting reader's
\* last_read, start_seqno and per-topic next_seqno as they were, and
\* increments the out-of-order counter of its kind.
C18_RejectedDropped ==
  Dropped /\
  [][Rejected =>
       log_state'[Taken.reader][Taken.log]
         = log_state[Taken.reader][Taken.log]]_vars

\* A rejected event leaves the state of a rejecting reader whose last_read
\* is not the 2^64 - 1 of the seqno - 1 wrap-around as it was.
RejectedDroppedOutsideWrap ==
  Dropped /\
  [][(Rejected /\ log_state[Taken.reader][Taken.log].last_read # U64 - 1) =>
       log_state'[Taken.reader][Taken.log]
         = log_state[Taken.reader][Taken.log]]_vars

\* What the code does for every rejecting reader: its state is as it was
\* unless the AttemptReaderMerges that follows a rejected record finds
\* another reader with the log open at the same last_read; then the
\* rejecting reader is merged into it, and that reader tracks every topic
\* the rejecting reader tracked, from its next_seqno or before.
RejectedDroppedUnlessMerged ==
  Dropped /\
  [][Rejected =>
       LET r == Taken.reader
           log == Taken.log
           before == log_state[r][log]
       IN IF ev'.merge = NoMerge
          THEN log_state'[r][log] = before
          ELSE /\ Taken.kind = "record"
               /\ ev'.merge.src = r /\ ev'.merge.dest # r
               /\ log_state[ev'.merge.dest][log].open
               /\ log_state[ev'.merge.dest][log].last_read = before.last_read
               /\ log_state'[ev'.merge.dest][log].last_read = before.last_read
               /\ \A i \in 1..Len(before.topics) :
                    \E j \in 1..Len(log_state'[ev'.merge.dest][log].topics) :
                      /\ log_state'[ev'.merge.dest][log].topics[j].topic
                           = before.topics[i].topic
                      /\ log_state'[ev'.merge.dest][log].topics[j].next_seqno
                           <= before.topics[i].next_seqno]_vars

\* This step is AddSubscriber(T, 0, id) with no tail estimate whose call of
\* FindLatestSeqno fails: the call is made and the storage holds no callback
\* more than before.
FindLatestSeqnoFailed ==
  /\ AddsAtTail /\ tail_seqno_cached[ev'.cmd.log] = 0
  /\ find_reqs' = find_reqs

\* This step is the FindLatestSeqno callback reporting a non-OK status.
CallbackFailed == CallbackRan /\ ev'.st = "Internal"

\* C19: when FindLatestSeqno fails, in the call or in its callback, nothing
\* is installed and nothing is left that could install it later: the
\* TopicManager, the index, the readers and the tail estimate stay as they
\* were, no message is sent, no request stays pending for the failed call
\* and no command is queued for the room thread.
C19_FindLatestSeqnoFailure ==
  [][(FindLatestSeqnoFailed \/ CallbackFailed) =>
       /\ UNCHANGED <<topic_map, stream_subscriptions, log_state,
                       tail_seqno_cached, cursor, queue>>
       /\ out' = <<>>
       /\ find_reqs' \sqsubseteq find_reqs]_vars

\* C19 witness: the callback of a request for id reported a failure while
\* the room queue had space for its command; the queue is still empty, id
\* is not subscribed and the log has no tail estimate.
C19_Witness ==
  /\ ev.kind = "FindLatestSeqnoCallback" /\ ev.st = "Internal"
  /\ NoCommands
  /\ ~Subscribed(ev.cmd.id, ev.cmd.topic)
  /\ tail_seqno_cached[ev.cmd.log] = 0
  /\ out = <<>>

\* This step is AddSubscriber on a topic the LogRouter cannot map to a log.
AddsUnroutable ==
  ops' = ops + 1 /\ ev'.kind = "AddSubscriber" /\ ev'.cmd.topic \notin Topics

\* C20: when the LogRouter fails, AddSubscriber returns the error, counts
\* add_subscriber_requests and nothing else, and leaves the TopicManager, the
\* index, the readers, the storage positions, the tail estimate, the pending
\* FindLatestSeqno requests and the room queue as they were; it calls no
\* storage operation and sends no message.
C20_RouterFailure ==
  [][AddsUnroutable =>
       /\ ev'.st # "OK"
       /\ ev'.stats = {"add_subscriber_requests"}
       /\ UNCHANGED <<topic_map, stream_subscriptions, log_state, cursor,
                       tail_seqno_cached, find_reqs, queue>>
       /\ calls' = <<>>
       /\ out' = <<>>]_vars

\* C20 witness: AddSubscriber(x, 0, id) on an unroutable topic x returned an
\* error while the log had no tail estimate and id was subscribed to a
\* routable topic; id still is, and no FindLatestSeqno request is pending.
C20_Witness ==
  /\ ev.kind = "AddSubscriber" /\ ev.cmd.topic = Unroutable
  /\ ev.st = "Internal" /\ ev.cmd.from = 0
  /\ \A log \in Logs : tail_seqno_cached[log] = 0
  /\ \E topic \in Topics : Subscribed(ev.cmd.id, topic)
  /\ find_reqs = EmptyBag /\ calls = <<>> /\ out = <<>>

\* C21: a tail estimate that is present (non-zero) is at most the next
\* seqno to be written to the log, and from one state to the next an
\* estimate that stays present does not decrease.
C21_TailEstimateLowerBound ==
  /\ [](\A log \in Logs :
          tail_seqno_cached[log] # 0 => tail_seqno_cached[log] <= written + 1)
  /\ [][\A log \in Logs :
          (tail_seqno_cached[log] # 0 /\ tail_seqno_cached'[log] # 0)
            => tail_seqno_cached'[log] >= tail_seqno_cached[log]]_vars

\* C21 witness: a record at or beyond an estimate that was present raised
\* it to the record's seqno + 1, which is the tail of the log.
C21_Witness ==
  /\ ev.kind = "record" /\ "tail_records_received" \in ev.stats
  /\ tail_seqno_cached[ev.cmd.log] = ev.cmd.seqno + 1
  /\ tail_seqno_cached[ev.cmd.log] = written + 1

\* This step is an AddSubscriber during which the storage failed the
\* StartReading(log, from) call of reader r.
StartReadingFailed(r, from) ==
  /\ ops' = ops + 1 /\ ev'.kind = "AddSubscriber"
  /\ <<"StartReading", r>> \in ev'.fail
  /\ \E k \in 1..Len(calls') :
        /\ calls'[k].op = "StartReading" /\ calls'[k].reader = r
        /\ calls'[k].seqno = from

\* The seqno the subscription added by this step expects: its start, or the
\* tail estimate when the start is 0.
AddedAt ==
  IF ev'.cmd.from # 0 THEN ev'.cmd.from ELSE tail_seqno_cached[ev'.cmd.log]

\* After a failed StartReading the other readers and the storage positions
\* are as before, the subscription is installed in TopicManager and the
\* index with its expected_next, and the chosen reader tracks the topic.
InstalledDespiteFailure ==
  [][\A r \in PhysicalIds : \A from \in 0..MaxSeq + 1 :
       StartReadingFailed(r, from) =>
         /\ \A r2 \in AllReaders \ {r} : log_state'[r2] = log_state[r2]
         /\ cursor' = cursor
         /\ InstalledAt(topic_map'[ev'.cmd.log], stream_subscriptions',
                        ev'.cmd.id, ev'.cmd.topic, AddedAt)
         /\ log_state'[r][ev'.cmd.log].open
         /\ ev'.cmd.topic \in LmTopics(log_state'[r][ev'.cmd.log].topics)]_vars

\* After a failed StartReading the chosen reader is still placed to serve
\* the subscription: the storage is reading the log for it from a seqno at
\* or before from, and the reader has not passed from.
PlacedDespiteFailure ==
  [][\A r \in PhysicalIds : \A from \in 1..MaxSeq + 1 :
       StartReadingFailed(r, from) =>
         /\ cursor'[r][ev'.cmd.log].reading
         /\ cursor'[r][ev'.cmd.log].next <= from
         /\ log_state'[r][ev'.cmd.log].last_read < from]_vars

\* C22: when the storage fails StartReading while a subscription is added,
\* the reader pool is intact, the subscription is installed in TopicManager
\* and the index with its expected_next, the chosen reader tracks the topic,
\* and that reader is placed so that the subscriber receives the records of
\* its topic from its start seqno on.
C22_StartReadingFailure == InstalledDespiteFailure /\ PlacedDespiteFailure

\* C24: in every state and for every topic and seqno,
\* ReaderForNewSubscription returns the only physical reader when the pool
\* has one; with two or more it returns the pending reader exactly when
\* every physical reader costs kSubscriptionCostRewind, and otherwise the
\* first reader in pool order whose SubscriptionCost is minimal.
C24_ReaderChoice ==
  \A topic \in Topics : \A seqno \in 0..MaxSeq + 1 :
    LET s == Working({})
        n == Len(log_readers)
        Cost(k) == SubscriptionCost(s, log_readers[k], topic, 1, seqno)
        chosen == ReaderForNewSubscription(s, topic, 1, seqno)
    IN /\ n = 1 => chosen = log_readers[1]
       /\ n >= 2 =>
            /\ chosen = PendingId
                 <=> \A k \in 1..n : Cost(k) = kSubscriptionCostRewind
            /\ chosen # PendingId =>
                 \E k \in 1..n :
                   /\ chosen = log_readers[k]
                   /\ \A j \in 1..n : Cost(j) >= Cost(k)
                   /\ \A j \in 1..(k - 1) : Cost(j) > Cost(k)

\* C24 witness: with two physical readers that both have the log open, an
\* AddSubscriber found both too costly and put its topic on the pending
\* reader.
C24_Witness ==
  /\ ev.kind = "AddSubscriber" /\ Len(log_readers) = 2
  /\ \A k \in 1..2 : log_state[log_readers[k]][1].open
  /\ log_state[PendingId][1].open
  /\ ev.cmd.topic \in LmTopics(log_state[PendingId][1].topics)

\* This step adds a subscription (AddSubscriber with a start, on the fast
\* path, or by the tail command) in a room with two or more physical readers.
AddsWithManyReaders ==
  /\ Len(log_readers) >= 2
  /\ \/ ops' = ops + 1 /\ ev'.kind = "AddSubscriber" /\ ev'.cmd.topic \in Topics
     \/ TailCommandRan

\* The seqno the reader of the subscription added by this step starts from.
AddedFrom ==
  LET n == IF ev'.kind = "tail" THEN ev'.cmd.seqno ELSE AddedAt
  IN IF can_subscribe_past_end THEN n ELSE Sub64(n, 1)

\* C25: with two or more physical readers, adding a subscription never calls
\* storage StartReading with first_open = false and never lowers the
\* last_read of a physical reader that has the log open; when every physical
\* reader would have to rewind, the topic is on the pending reader afterwards.
C25_NoRewindWithManyReaders ==
  [][AddsWithManyReaders =>
       /\ \A k \in 1..Len(calls') :
            calls'[k].op = "StartReading" => calls'[k].first_open
       /\ \A r \in PhysicalIds : \A log \in Logs :
            log_state[r][log].open =>
              /\ log_state'[r][log].open
              /\ log_state'[r][log].last_read = log_state[r][log].last_read
              /\ cursor'[r][log] = cursor[r][log]
       /\ (/\ ev'.kind = "tail" \/ ev'.cmd.from # 0 \/ tail_seqno_cached[1] # 0
           /\ \A k \in 1..Len(log_readers) :
                SubscriptionCost(Working({}), log_readers[k], ev'.cmd.topic, 1,
                                 AddedFrom) = kSubscriptionCostRewind)
            => /\ log_state'[PendingId][1].open
               /\ ev'.cmd.topic \in LmTopics(log_state'[PendingId][1].topics)
               /\ calls' = <<>>]_vars

\* C25 witness: with two physical readers, both past seqno 1, an
\* AddSubscriber at a seqno neither of them can serve was parked on the
\* pending reader without any storage call.
C25_Witness ==
  /\ ev.kind = "AddSubscriber" /\ Len(log_readers) = 2 /\ ev.cmd.from > 0
  /\ \A k \in 1..2 :
       /\ log_state[log_readers[k]][1].open
       /\ log_state[log_readers[k]][1].last_read >= ev.cmd.from
       /\ log_state[log_readers[k]][1].last_read < MaxSeq + 1
  /\ log_state[PendingId][1].open
  /\ LmFind(log_state[PendingId][1].topics, ev.cmd.topic) # 0
  /\ log_state[PendingId][1].start_seqno <= ev.cmd.from
  /\ calls = <<>>

\* The room thread runs a record or gap command that ends with
\* AttemptReaderMerges: every record, and every gap that passes ValidateGap.
MergeAttempted ==
  /\ RoomRan /\ Taken.kind \in {"record", "gap"}
  /\ ~(Taken.kind = "gap" /\ ev'.st # "OK")

\* The positions in the pool of the readers src can merge into once it has
\* processed the command: the other readers that have the log open at the
\* last_read src has then.
MergeCandidates ==
  LET cmd == Taken
      src_last == IF ev'.st = "OK" THEN cmd.to
                  ELSE log_state[cmd.reader][cmd.log].last_read
  IN {k \in 1..Len(log_readers) :
        /\ log_readers[k] # cmd.reader
        /\ log_state[cmd.reader][cmd.log].open
        /\ log_state[log_readers[k]][cmd.log].open
        /\ log_state[log_readers[k]][cmd.log].last_read = src_last}

\* C26 as stated: AttemptReaderMerges(src, L) merges src into the first
\* reader of the pool that has L open at src's last_read, and into no other;
\* if the pending reader has L open, src then takes over its whole LogState
\* (whose last_read is start_seqno - 1), starts storage reading at its
\* start_seqno, and the pending reader has L closed.  Without such a reader
\* no reader is merged, closed or started.
C26_MergeThenSteal ==
  [][MergeAttempted =>
       LET cmd == Taken
           src == cmd.reader
           log == cmd.log
           pending == log_state[PendingId][log]
       IN IF MergeCandidates = {}
          THEN /\ ev'.merge = NoMerge
               /\ calls' = <<>>
               /\ cursor' = cursor
               /\ log_state'[PendingId] = log_state[PendingId]
               /\ \A r \in PhysicalIds \ {src} : log_state'[r] = log_state[r]
               /\ log_state'[src][log].open = log_state[src][log].open
          ELSE LET k == CHOOSE k \in MergeCandidates :
                           \A j \in MergeCandidates : k <= j
                   dest == log_readers[k]
               IN /\ ev'.merge.src = src /\ ev'.merge.dest = dest
                  /\ log_state'[dest][log].open
                  /\ \A r \in PhysicalIds \ {src, dest} : log_state'[r] = log_state[r]
                  /\ \A r \in PhysicalIds \ {src} : cursor'[r] = cursor[r]
                  /\ IF pending.open
                     THEN /\ log_state'[src][log] = pending
                          /\ pending.last_read = Sub64(pending.start_seqno, 1)
                          /\ ~log_state'[PendingId][log].open
                          /\ cursor'[src][log] =
                               [reading |-> TRUE, next |-> pending.start_seqno]
                          /\ \E i \in 1..Len(calls') :
                               /\ calls'[i].op = "StartReading"
                               /\ calls'[i].reader = src
                               /\ calls'[i].seqno = pending.start_seqno
                     ELSE /\ ~log_state'[src][log].open
                          /\ ~cursor'[src][log].reading
                          /\ log_state'[PendingId] = log_state[PendingId]]_vars

\* C26 (as amended): AttemptReaderMerges(src, L) merges src into the first
\* reader of the pool that has L open at src's last_read, and into no other:
\* src has L closed and has issued the storage StopReading.  If the pending
\* reader has L open, src then issues the storage StartReading at the
\* pending reader's start_seqno and, if the storage accepts it, takes over
\* the pending reader's whole LogState (whose last_read is start_seqno - 1)
\* and the pending reader has L closed; if the storage fails it, src stays
\* closed on L and the pending reader keeps its LogState.  The storage stops
\* delivering L to a src that stays closed unless it failed the StopReading.
\* Without a reader to merge into no reader is merged, closed or started.
C26_MergeThenAdopt ==
  [][MergeAttempted =>
       LET cmd == Taken
           src == cmd.reader
           log == cmd.log
           pending == log_state[PendingId][log]
           start_failed == <<"StartReading", src>> \in ev'.fail
           stop_failed == <<"StopReading", src>> \in ev'.fail
       IN IF MergeCandidates = {}
          THEN /\ ev'.merge = NoMerge
               /\ calls' = <<>>
               /\ cursor' = cursor
               /\ log_state'[PendingId] = log_state[PendingId]
               /\ \A r \in PhysicalIds \ {src} : log_state'[r] = log_state[r]
               /\ log_state'[src][log].open = log_state[src][log].open
          ELSE LET k == CHOOSE k \in MergeCandidates :
                           \A j \in MergeCandidates : k <= j
                   dest == log_readers[k]
               IN /\ ev'.merge.src = src /\ ev'.merge.dest = dest
                  /\ log_state'[dest][log].open
                  /\ \A r \in PhysicalIds \ {src, dest} : log_state'[r] = log_state[r]
                  /\ \A r \in PhysicalIds \ {src} : cursor'[r] = cursor[r]
                  /\ Stops(log, src)
                  /\ pending.open <=>
                       \E i \in 1..Len(calls') :
                         /\ calls'[i].op = "StartReading"
                         /\ calls'[i].reader = src
                         /\ calls'[i].seqno = pending.start_seqno
                         /\ calls'[i].first_open
                  /\ IF pending.open /\ ~start_failed
                     THEN /\ log_state'[src][log] = pending
                          /\ pending.last_read = Sub64(pending.start_seqno, 1)
                          /\ ~log_state'[PendingId][log].open
                          /\ cursor'[src][log] =
                               [reading |-> TRUE, next |-> pending.start_seqno]
                     ELSE /\ ~log_state'[src][log].open
                          /\ log_state'[PendingId] = log_state[PendingId]
                          /\ cursor'[src][log] =
                               IF stop_failed THEN cursor[src][log]
                               ELSE ClosedCursor]_vars

\* C26 witness: a reader has been merged into the first reader of the pool
\* that had the log open at its last_read, while a reader later in the pool
\* has the log open at that last_read too and was passed over.
C26_Witness ==
  /\ ev.kind \in {"record", "gap"} /\ ev.merge.src = ev.cmd.reader
  /\ ~log_state[ev.merge.src][1].open
  /\ \E i, j \in 1..Len(log_readers) :
       /\ i < j
       /\ log_readers[i] = ev.merge.dest
       /\ log_readers[j] \notin {ev.merge.src, ev.merge.dest}
       /\ log_state[log_readers[j]][1].open
       /\ log_state[log_readers[j]][1].last_read
            = log_state[ev.merge.dest][1].last_read
       /\ \A k \in 1..(i - 1) :
            log_readers[k] = ev.merge.src \/ ~log_state[log_readers[k]][1].open

\* The result res of StartReading(topic, log, seqno) on reader r leaves topic
\* at the LRU front with next_seqno = min(existing, seqno), or seqno when the
\* topic is new, and the other topics in their order.
TopicToFront(res, r, topic, seqno) ==
  LET before == log_state[r][1].topics
      after == res.s.log_state[r][1].topics
      i == LmFind(before, topic)
  IN /\ after # <<>> /\ after[1].topic = topic
     /\ after[1].next_seqno = IF i = 0 THEN seqno ELSE Min(before[i].next_seqno, seqno)
     /\ Tail(after) = IF i = 0 THEN before ELSE LmErase(before, i)

\* The result res of StartReading(topic, log, seqno) on reader r is a
\* rewind: it called the storage StartReading(log, seqno, r, first_open =
\* false), which leaves the storage reader at seqno, and set last_read =
\* seqno - 1.
RewindsTo(res, r, seqno) ==
  /\ res.ok
  /\ res.s.calls = <<[op |-> "StartReading", log |-> 1, seqno |-> seqno,
                      reader |-> r, first_open |-> FALSE]>>
  /\ res.s.cursor[r][1] = [reading |-> TRUE, next |-> seqno]
  /\ res.s.log_state[r][1].open
  /\ res.s.log_state[r][1].last_read = Sub64(seqno, 1)

\* The result res of StartReading on reader r called no storage operation
\* and left the reader's position as it was.
KeepsPosition(res, r) ==
  /\ res.ok /\ res.s.calls = <<>> /\ res.s.cursor = cursor
  /\ res.s.log_state[r][1].last_read = log_state[r][1].last_read
  /\ res.s.log_state[r][1].start_seqno = log_state[r][1].start_seqno

\* Reader r tracks topic with next_seqno <= seqno.
TrackedFrom(r, topic, seqno) ==
  LET i == LmFind(log_state[r][1].topics, topic)
  IN i # 0 /\ log_state[r][1].topics[i].next_seqno <= seqno

\* C28 as stated: on an open log with seqno <= last_read, StartReading
\* rewinds to seqno for every topic, tracked or not, and leaves the topic at
\* the LRU front with next_seqno = min(existing, seqno).
C28_RewindsEveryTopic ==
  LET s == Working({})
  IN \A r \in PhysicalIds : log_state[r][1].open =>
       \A seqno \in 0..MaxSeq + 1 : seqno <= log_state[r][1].last_read =>
         \A topic \in Topics :
           LET res == StartReading(s, r, topic, 1, seqno)
           IN RewindsTo(res, r, seqno) /\ TopicToFront(res, r, topic, seqno)

\* C28 (as amended): on an open log with seqno <= last_read, StartReading
\* rewinds to seqno unless the reader tracks the topic with next_seqno <=
\* seqno, in which case it calls no storage operation and keeps last_read
\* and start_seqno; in both cases the topic is left at the LRU front with
\* next_seqno = min(existing, seqno), or seqno when it is new.
C28_RewindsUnlessTracked ==
  LET s == Working({})
  IN \A r \in PhysicalIds : log_state[r][1].open =>
       \A seqno \in 0..MaxSeq + 1 : seqno <= log_state[r][1].last_read =>
         \A topic \in Topics :
           LET res == StartReading(s, r, topic, 1, seqno)
           IN /\ TopicToFront(res, r, topic, seqno)
              /\ IF TrackedFrom(r, topic, seqno)
                 THEN KeepsPosition(res, r)
                 ELSE RewindsTo(res, r, seqno)

\* C28 witness: an AddSubscriber rewound the reader, which had read up to
\* seqno 2 or beyond, to the seqno it asked for, and the reader tracks two
\* topics with the new one at the LRU front.
C28_Witness ==
  /\ ev.kind = "AddSubscriber"
  /\ \E k \in 1..Len(calls) :
        /\ calls[k].op = "StartReading" /\ ~calls[k].first_open
        /\ calls[k].seqno >= 1
        /\ log_state[calls[k].reader][1].last_read = calls[k].seqno - 1
        /\ Len(log_state[calls[k].reader][1].topics) = 2
        /\ log_state[calls[k].reader][1].topics[1].topic = ev.cmd.topic
        /\ log_state[calls[k].reader][1].topics[1].next_seqno = calls[k].seqno

\* C27: a log opened on the virtual pending reader is eventually closed on
\* it again (its subscriptions were adopted by a physical reader or removed),
\* when the storage keeps delivering records and gaps to every open physical
\* reader and the room thread keeps running.
C27_ParkedEventuallyAdopted ==
  log_state[PendingId][1].open ~> ~log_state[PendingId][1].open

\* Reader r tracks topic on the log and has not reached its next_seqno yet:
\* next_seqno > last_read + 1.
AheadOfReader(r, topic) ==
  LET ls == log_state[r][1]
      i == LmFind(ls.topics, topic)
  IN ls.open /\ i # 0 /\ ls.topics[i].next_seqno > Add64(ls.last_read, 1)

\* C29 as stated: on every reader, physical or pending, every topic of an
\* open log has next_seqno <= last_read + 1 (readers whose last_read + 1
\* wraps to 0 are left out).
C29_NextSeqnoBound ==
  \A r \in AllReaders : \A topic \in Topics :
    log_state[r][1].last_read # U64 - 1 => ~AheadOfReader(r, topic)

\* C29 (as amended): a topic's next_seqno comes to exceed last_read + 1 on
\* a reader only in a step that starts reading for a subscription
\* (AddSubscriber, or the deferred subscription at the tail) or that merges
\* readers; processing a record or a gap alone never leaves a topic ahead
\* of the reader that was not ahead before.
C29_AheadOnlyBySubscription ==
  [][\A r \in AllReaders : \A topic \in Topics :
       (AheadOfReader(r, topic)' /\ ~AheadOfReader(r, topic)) =>
          \/ ev'.kind \in {"AddSubscriber", "tail"}
          \/ ev'.merge.src # 0]_vars

\* C29 witness: a subscription was added ahead of a reader that has read a
\* record or gap and tracks another topic it has reached.
C29_Witness ==
  /\ ev.kind \in {"AddSubscriber", "tail"}
  /\ \E r \in PhysicalIds :
        /\ log_state[r][1].last_read \in 1..MaxSeq
        /\ Len(log_state[r][1].topics) = 2
        /\ AheadOfReader(r, ev.cmd.topic)
        /\ \E topic \in Topics :
              /\ LmFind(log_state[r][1].topics, topic) # 0
              /\ ~AheadOfReader(r, topic)

\* The case of C30 that reader r is in for a subscription to topic at seqno.
CostCase(r, topic, seqno) ==
  LET ls == log_state[r][1]
      tracked == {i \in 1..Len(ls.topics) : ls.topics[i].topic = topic}
  IN CASE ~ls.open -> "start"
       [] ls.open /\ ls.last_read < seqno -> "distance"
       [] /\ ls.open /\ ls.last_read >= seqno
          /\ \E i \in tracked : seqno >= ls.topics[i].next_seqno -> "free"
       [] OTHER -> "rewind"

\* C30: SubscriptionCost(topic, log, seqno) is kSubscriptionCostStart when
\* the log is not open on the reader, seqno - last_read when last_read <
\* seqno, 0 when last_read >= seqno and the topic is tracked with seqno >=
\* next_seqno, and kSubscriptionCostRewind in every other case.
C30_SubscriptionCost ==
  LET s == Working({})
  IN \A r \in AllReaders : \A topic \in Topics : \A seqno \in 0..MaxSeq + 1 :
       LET case == CostCase(r, topic, seqno)
       IN SubscriptionCost(s, r, topic, 1, seqno) =
            CASE case = "start" -> kSubscriptionCostStart
              [] case = "distance" -> seqno - log_state[r][1].last_read
              [] case = "free" -> 0
              [] OTHER -> kSubscriptionCostRewind

\* C30 witness: an AddSubscriber in a room with two readers chose between a
\* reader that has the log closed and one that has read a record or gap,
\* and on the latter the three other cases of the cost occur.
C30_Witness ==
  /\ ev.kind = "AddSubscriber" /\ ev.st = "OK" /\ ev.cmd.seqno >= 1
  /\ Len(log_readers) = 2
  /\ \E r1 \in PhysicalIds, r2 \in PhysicalIds :
        /\ r1 # r2
        /\ CostCase(r1, ev.cmd.topic, ev.cmd.seqno) = "start"
        /\ log_state[r2][1].last_read \in 1..MaxSeq
        /\ \E seqno \in 1..MaxSeq + 1 : CostCase(r2, ev.cmd.topic, seqno) = "distance"
        /\ \E seqno \in 1..MaxSeq + 1 : CostCase(r2, ev.cmd.topic, seqno) = "free"
        /\ \E topic \in Topics, seqno \in 1..MaxSeq + 1 :
              CostCase(r2, topic, seqno) = "rewind"

\* The messages the last step delivered from the data cache.
FromCache == SelectSeq(out, LAMBDA m : m.via = "cache")

\* The last step ran AddSubscriberInternal(topic, id, log, seqno) for a
\* routable topic: an AddSubscriber with a start seqno, or the deferred
\* subscription at the tail.
RanAddSubscriberInternal ==
  /\ ev.kind \in {"AddSubscriber", "tail"} /\ ev.st = "OK"
  /\ ev.cmd.topic \in Topics /\ ev.cmd.seqno >= 1
  /\ Subscribed(ev.cmd.id, ev.cmd.topic)

\* The messages AddSubscriberInternal sent from the cache go to the new
\* subscriber alone and cover [s, s' - 1] contiguously: the first prev is s,
\* each later prev is the seqno before it plus one, the last seqno is
\* s' - 1, only the last message may be a gap and it is benign; every cached
\* record of the topic with seqno >= s is delivered exactly once; with no
\* message, and with capacity 0, s' = s.
CacheMessagesChained ==
  RanAddSubscriberInternal =>
    LET msgs == FromCache
        s == ev.cmd.seqno
        s2 == Expected(ev.cmd.id, ev.cmd.topic)
    IN /\ data_cache.capacity = 0 => msgs = <<>>
       /\ msgs = <<>> => s2 = s
       /\ msgs # <<>> => msgs[1].prev = s /\ msgs[Len(msgs)].seqno = s2 - 1
       /\ \A k \in 1..Len(msgs) :
            /\ msgs[k].rcpts = <<ev.cmd.id>> /\ msgs[k].topic = ev.cmd.topic
            /\ k < Len(msgs) => /\ msgs[k + 1].prev = msgs[k].seqno + 1
                                /\ msgs[k].kind = "data"
            /\ msgs[k].kind = "gap" => msgs[k].type = "benign"
       /\ \A e \in 1..Len(data_cache.entries) :
            (data_cache.entries[e].topic = ev.cmd.topic
               /\ data_cache.entries[e].seqno >= s) =>
              Cardinality({k \in 1..Len(msgs) :
                             /\ msgs[k].kind = "data"
                             /\ msgs[k].seqno = data_cache.entries[e].seqno}) = 1

\* No record of the topic with seqno in [s, s' - 1] is skipped by
\* AddSubscriberInternal: each is among the messages sent from the cache.
NoRecordSkipped ==
  RanAddSubscriberInternal =>
    \A j \in ev.cmd.seqno..Expected(ev.cmd.id, ev.cmd.topic) - 1 :
      (j <= written /\ slog[j] = ev.cmd.topic) =>
        \E k \in 1..Len(FromCache) :
          FromCache[k].kind = "data" /\ FromCache[k].seqno = j

\* C31: when AddSubscriberInternal(T, id, L, s) serves a prefix from the
\* data cache and installs the subscriber at s', the messages sent to id
\* cover [s, s' - 1] contiguously, every cached record of T with seqno >= s
\* is delivered exactly once in order, a final benign gap bridges up to
\* s' - 1, and no record of T in [s, s' - 1] is skipped; with capacity 0
\* nothing is sent and s' = s.
C31_CacheFastForward == CacheMessagesChained /\ NoRecordSkipped

\* The step is a record command that its reader accepted in order without
\* tracking the record's topic: ProcessRecord returned OK with prev = 0.
UntrackedRecordAccepted ==
  /\ ev'.kind = "record" /\ ev'.st = "OK" /\ ev'.prev = 0
  /\ LmFind(log_state[ev'.cmd.reader][1].topics, ev'.cmd.topic) = 0

\* The step sends no message and changes no subscriber's expected_next.
NothingDelivered == out' = <<>> /\ topic_map' = topic_map

\* The step leaves last_read of the command's reader at the record's seqno
\* and changes no topic entry of any reader.
OnlyLastReadAdvanced ==
  /\ log_state'[ev'.cmd.reader][1].open
  /\ log_state'[ev'.cmd.reader][1].last_read = ev'.cmd.seqno
  /\ \A r \in AllReaders : log_state'[r][1].topics = log_state[r][1].topics

\* C32 as stated: a record accepted in order by a reader that does not
\* track its topic advances the reader's last_read to the record's seqno,
\* is delivered to nobody, changes no expected_next and no per-topic
\* next_seqno, and triggers no bump.
C32_UntrackedRecordFrame ==
  [][UntrackedRecordAccepted => NothingDelivered /\ OnlyLastReadAdvanced]_vars

\* C32 (as amended): such a record is delivered to nobody, changes no
\* expected_next and triggers no bump; it advances the reader's last_read
\* to its seqno and changes no per-topic next_seqno unless the reader has
\* thereby reached the position of another reader, into which
\* AttemptReaderMerges then merges it.
C32_UntrackedRecordFrameUnlessMerged ==
  [][UntrackedRecordAccepted =>
       /\ NothingDelivered
       /\ "bumped_subscriptions" \notin ev'.stats
       /\ ev'.merge.src = 0 => OnlyLastReadAdvanced
       /\ ev'.merge.src # 0 =>
            /\ ev'.merge.src = ev'.cmd.reader
            /\ log_state[ev'.merge.dest][1].last_read = ev'.cmd.seqno]_vars

\* C32 witness: a reader that tracks a topic with subscribers accepted a
\* record of another topic, which has a subscriber too, and did not merge.
C32_Witness ==
  /\ ev.kind = "record" /\ ev.st = "OK" /\ ev.prev = 0 /\ ev.merge.src = 0
  /\ log_state[ev.cmd.reader][1].last_read = ev.cmd.seqno
  /\ log_state[ev.cmd.reader][1].topics # <<>>
  /\ LmFind(log_state[ev.cmd.reader][1].topics, ev.cmd.topic) = 0
  /\ topic_map[1][ev.cmd.topic] # <<>>

\* The expected_next TopicManager tm holds for id on topic, 0 if id is not
\* subscribed to it.
ExpectedIn(tm, id, topic) ==
  IF SubIndex(tm[1][topic], id) = 0 THEN 0
  ELSE tm[1][topic][SubIndex(tm[1][topic], id)].seqno

\* Every message a record or gap command sends (for the record or gap itself
\* or as a bump) leaves each recipient's expected_next above the value it
\* had when the message was built.
DeliveriesAdvance ==
  [][ev'.kind \in {"record", "gap"} =>
       \A k \in 1..Len(out') : \A j \in 1..Len(out'[k].rcpts) :
         out'[k].exps[j] < ExpectedIn(topic_map', out'[k].rcpts[j], out'[k].topic)]_vars

\* A record sent to a subscriber has a seqno above that of every message
\* sent to it on the topic since it last subscribed.
NoRecordTwice ==
  [][\A k \in 1..Len(out') : \A j \in 1..Len(out'[k].rcpts) :
       out'[k].kind = "data" =>
         DeliveredBefore(k, out'[k].rcpts[j]) < out'[k].seqno]_vars

\* Only an AddSubscriber of the same id, at once or deferred to the tail,
\* lowers the expected_next of a subscription.
OnlyAddSubscriberLowers ==
  [][\A id \in Ids : \A topic \in Topics :
       (/\ SubIndex(topic_map[1][topic], id) # 0
        /\ SubIndex(topic_map'[1][topic], id) # 0
        /\ ExpectedIn(topic_map', id, topic) < ExpectedIn(topic_map, id, topic)) =>
         ev'.kind \in {"AddSubscriber", "tail"} /\ ev'.cmd.id = id]_vars

\* C33: every record or gap message sent to a subscriber by record, gap or
\* bump processing leaves its expected_next strictly greater than before,
\* no record seqno is delivered twice to the same subscription, and only
\* AddSubscriber with the same id lowers expected_next.
C33_DeliveriesStrictlyAdvance ==
  DeliveriesAdvance /\ NoRecordTwice /\ OnlyAddSubscriberLowers

\* C33 witness: the single reader of a room, rewound for a second
\* subscriber, replayed a record to that subscriber alone while the first
\* subscriber of the topic, which had received it, stays beyond it.
C33_Witness ==
  /\ ev.kind = "record" /\ Len(log_readers) = 1
  /\ \E k \in 1..Len(out) :
        /\ out[k].kind = "data" /\ Len(out[k].rcpts) = 1
        /\ Len(topic_map[1][out[k].topic]) = 2
        /\ \A i \in 1..2 : topic_map[1][out[k].topic][i].seqno = out[k].seqno + 1
        /\ \E id \in Ids : /\ id # out[k].rcpts[1]
                           /\ last_next[id][out[k].topic] = out[k].seqno

\* A reader whose position or tracked topic came out of the seqno - 1
\* wrap-around of a subscription at seqno 0 or 1.
WrappedReader(r) ==
  /\ log_state[r][1].open
  /\ \/ log_state[r][1].last_read = U64 - 1
     \/ \E i \in 1..Len(log_state[r][1].topics) :
          log_state[r][1].topics[i].next_seqno = 0

\* C34: whenever gap or bump processing sends a benign gap message (p, to)
\* on topic T to a subscriber whose expected_next is E, the log holds no
\* record of T with seqno in [E, to]; a gap received by a reader that does
\* not track T advances no subscriber of T. Stated for readers outside the
\* seqno - 1 wrap-around.
C34_NoLossThroughGaps ==
  [][(ev'.kind \in {"record", "gap"} /\ \A r \in PhysicalIds : ~WrappedReader(r)) =>
       \A k \in 1..Len(out') : \A j \in 1..Len(out'[k].rcpts) :
         (out'[k].kind = "gap" /\ out'[k].type = "benign") =>
           \A q \in out'[k].exps[j]..out'[k].seqno :
             (q >= 1 /\ q <= written) => slog[q] # out'[k].topic]_vars

\* The log holds a record of the topic at some seqno in [from, to].
RecordOfIn(topic, from, to) ==
  \E q \in 1..written : q >= from /\ q <= to /\ slog[q] = topic

\* No tracked topic of reader r has a record in [next_seqno, last_read].
NextSeqnoCovers(r) ==
  \A i \in 1..Len(log_state[r][1].topics) :
    ~RecordOfIn(log_state[r][1].topics[i].topic,
                log_state[r][1].topics[i].next_seqno,
                log_state[r][1].last_read)

\* C35: for every reader, open log and tracked topic T, the log holds no
\* record of T with seqno in [T.next_seqno, last_read]. Stated for readers
\* that have a position (last_read is not 2^64 - 1).
C35_NextSeqnoMeaning ==
  \A r \in AllReaders :
    (log_state[r][1].open /\ log_state[r][1].last_read # U64 - 1)
      => NextSeqnoCovers(r)

\* The same statement for readers outside the seqno - 1 wrap-around; it
\* holds in every reachable state when storage calls succeed.
NextSeqnoMeaningOutsideWrap ==
  \A r \in AllReaders :
    (log_state[r][1].open /\ ~WrappedReader(r)) => NextSeqnoCovers(r)

\* Topics tracked by at least one reader, physical or pending, on the log.
TrackedTopics ==
  {topic \in Topics :
     \E r \in AllReaders :
       /\ log_state[r][1].open
       /\ \E i \in 1..Len(log_state[r][1].topics) :
            log_state[r][1].topics[i].topic = topic}

\* Topics with at least one subscriber in the TopicManager of the log.
SubscribedTopics == {topic \in Topics : topic_map[1][topic] # <<>>}

\* No subscribed topic is untracked.
SubscribedIsTracked == SubscribedTopics \subseteq TrackedTopics

\* No reader keeps a topic without subscribers.
TrackedIsSubscribed == TrackedTopics \subseteq SubscribedTopics

\* C36: between room-thread commands the set of topics tracked by at least
\* one reader on the log equals the set of topics with at least one
\* subscriber in TopicManager.
C36_TrackedEqualsSubscribed == TrackedTopics = SubscribedTopics

\* C36 is met after the last subscriber of a topic was removed while
\* another topic stays subscribed and tracked.
C36_Witness ==
  /\ ev.kind = "RemoveSubscriber" /\ ev.st = "OK"
  /\ topic_map[1][ev.cmd.topic] = <<>>
  /\ \E k \in 1..Len(calls) : calls[k].op = "StopReading"
  /\ TrackedTopics # {} /\ TrackedTopics = SubscribedTopics

\* C37: the topics of an open LogState are ordered from LRU front to back
\* by non-decreasing next_seqno. Stated for readers outside the seqno - 1
\* wrap-around.
C37_TopicsOrderedByNextSeqno ==
  \A r \in AllReaders :
    (log_state[r][1].open /\ ~WrappedReader(r)) =>
      \A i \in 1..Len(log_state[r][1].topics) :
        \A j \in 1..Len(log_state[r][1].topics) :
          i < j => log_state[r][1].topics[i].next_seqno
                     <= log_state[r][1].topics[j].next_seqno

\* C38: the assertions of LogReader::ProcessGap hold whenever the room
\* thread processes a gap of written seqnos: the log is open, the gap starts
\* at last_read + 1 and a tracked topic's next_seqno is non-zero.
C38_ProcessGapAssertions ==
  (ev.kind = "gap" /\ ev.cmd.from >= 1) => ~ev.asserted

\* The room thread ran a record command that called
\* BumpLaggingSubscriptions(log, seqno, on_bump) on reader cmd.reader.
BumpCalled == ev.kind = "record" /\ ev.st = "OK" /\ ev.prev # 0

\* No topic occurs twice in the sequence.
NoRepeat(seq) ==
  \A i \in 1..Len(seq) : \A j \in 1..Len(seq) : i # j => seq[i] # seq[j]

\* The LRU-front topic of the LogState, if any, is within the lag of seqno.
FrontWithinLag(ls, seqno) ==
  (ls.open /\ ls.topics # <<>>) =>
    ls.topics[1].next_seqno + max_subscription_lag >= seqno

\* The calls the room thread made: on_bump ran at most once per topic and,
\* unless a merge replaced the reader's state later in the command, the
\* front topic is within the lag afterwards.
BumpCallsBounded ==
  BumpCalled =>
    /\ NoRepeat(ev.bumped)
    /\ ev.merge.src = 0 =>
         FrontWithinLag(log_state[ev.cmd.reader][1], ev.cmd.seqno)

\* A call from the current state on any reader at any seqno a record of the
\* log can have: it returns, with the same two properties.
BumpFromHereBounded ==
  \A r \in PhysicalIds : \A seqno \in 1..(MaxSeq + 1) :
    LET s == BumpLaggingSubscriptions(Working({}), r, 1, seqno)
    IN /\ NoRepeat(s.bumped)
       /\ Len(s.bumped) <= Len(log_state[r][1].topics)
       /\ FrontWithinLag(s.log_state[r][1], seqno)

\* C39: BumpLaggingSubscriptions(log, seqno, on_bump) terminates from every
\* reachable state, invokes on_bump at most once per tracked topic per call,
\* and on return the LRU-front topic (if any) satisfies
\* next_seqno + max_subscription_lag >= seqno.
C39_BumpTerminates == BumpCallsBounded /\ BumpFromHereBounded

\* C39 is met when a call bumped the front topic and left the reader with
\* two topics.
C39_Witness ==
  /\ BumpCalled /\ ev.bumped # <<>> /\ ev.merge.src = 0
  /\ log_state[ev.cmd.reader][1].open
  /\ Len(log_state[ev.cmd.reader][1].topics) = 2
  /\ log_state[ev.cmd.reader][1].topics[2].topic = ev.bumped[1]
  /\ log_state[ev.cmd.reader][1].topics[2].next_seqno = ev.cmd.seqno + 1

\* The room thread runs a record or gap on a reader that has the log open
\* at another position: the event does not start at last_read + 1.
OpenButOutOfOrder ==
  /\ RoomRan /\ Taken.kind \in {"record", "gap"}
  /\ LET cmd == Taken
         before == log_state[cmd.reader][cmd.log]
     IN before.open /\ cmd.from # Add64(before.last_read, 1)

\* The room thread runs a record or gap on a reader that does not have the
\* log open.
LogNotOpen ==
  /\ RoomRan /\ Taken.kind \in {"record", "gap"}
  /\ ~log_state[Taken.reader][Taken.log].open

\* What the code reports: NotFound both when the log is not open on the
\* reader and when it is open but the event does not start at last_read + 1;
\* every other event is reported OK.
RejectionsReportNotFound ==
  [][(RoomRan /\ Taken.kind \in {"record", "gap"}) =>
       ev'.st = IF OpenButOutOfOrder \/ LogNotOpen THEN "NotFound" ELSE "OK"]_vars

\* C40: ProcessRecord and ValidateGap report OutOfOrder when the log is open
\* but the event does not start at last_read + 1, and NotFound only when the
\* log is not open on the reader.
C40_OutOfOrderDistinct ==
  [][/\ OpenButOutOfOrder => ev'.st = "OutOfOrder"
     /\ LogNotOpen => ev'.st = "NotFound"
     /\ (RoomRan /\ Taken.kind \in {"record", "gap"}
           /\ ev'.st = "NotFound") => LogNotOpen]_vars

====
